---- MODULE Spec2Model ----
(***************************************************************************)
(* Model of the Eagle schematic import engine (SCH_EAGLE_PLUGIN): the      *)
(* per-sheet assembler loadSheet, loadSegments with its net/segment        *)
(* tracker, the label-placement corrector adjustNetLabels, the bus-entry   *)
(* synthesizer addBusEntries and the missing-unit pass of loadSchematic.   *)
(*                                                                         *)
(* Every part of the engine has its own specification over its own group   *)
(* of variables; the variables of the other groups stay at their idle      *)
(* value.                                                                  *)
(*   Spec            loadSchematic / loadSheet / addImplicitConnections    *)
(*   SpecSegments    loadSegments over the bus and net elements of a sheet *)
(*   SpecLabels      adjustNetLabels over the tracker of a loaded sheet    *)
(*   SpecBusEntries  addBusEntries over the lines of a loaded sheet        *)
(*   SpecCountNets   countNets over the sheets of the document             *)
(*   SpecImplicit    loadInstance, loadWire and addImplicitConnections     *)
(*                   with the connection-point map in full                 *)
(*   SpecLibrary     loadLibrary / loadSymbol over the device sets of a    *)
(*                   library                                               *)
(*   SpecAlignment   eagleToKicadAlignment over the alignments, rotations  *)
(*                   and mirror flags                                      *)
(*   SpecTranslation the translation of the items at the end of loadSheet  *)
(*   SpecUnescape    UnescapeString over the strings of a small alphabet   *)
(*   SpecReference   the reference loadInstance gives to a component       *)
(***************************************************************************)
EXTENDS Integers, Sequences, FiniteSets, TLC

VARIABLES
    \* ---- loadSchematic / loadSheet ----
    pc,                  \* position of loadSchematic / loadSheet
    sheet_count,         \* countChildren( sheets, "sheet" )
    sheetIndex,          \* number of the sheet being loaded (1-based), 0 before the first
    log,                 \* phases of loadSheet run so far for the current sheet
    m_segments,          \* net/segment tracker
    m_wireIntersections, \* wire-intersection set
    m_connPoints,        \* connection-point map
    pwrUnits,            \* units of the multi-unit part that own a power-input pin
    placed,              \* unit -> sheet whose screen holds the component (0: none)
    implicitDone,        \* components of the current screen already visited at line 2206
    m_missingCmps,       \* reference -> (unit -> needs instantiating)
    synthesized,         \* units instantiated by the missing-unit pass, on the root sheet
    \* ---- loadSegments ----
    m_netCounts,         \* net name -> number of net elements of that name (countNets)
    netName,             \* loadSegments: netName
    segmentCount,        \* loadSegments: segmentCount
    segmentsLeft,        \* loadSegments: segment elements not yet visited
    nodes,               \* names of the bus / net elements loaded on this sheet, in order
    groupOf,             \* for every entry of m_segments: the element (index into nodes) it is of
    recordedBy,          \* for every entry of m_wireIntersections: the two groups whose wires met
    screen,              \* the labels appended to the screen of the sheet
    \* ---- adjustNetLabels ----
    segIdx,              \* position of the loop over m_segments (line 3510)
    labelIdx,            \* position of the loop over segDesc.labels (line 3512)
    segAttached,         \* adjustNetLabels: segAttached, << >> for nullptr
    wireDirection,       \* adjustNetLabels: wireDirection
    origPos,             \* adjustNetLabels: origPos
    labelPos,            \* adjustNetLabels: labelPos
    checkPositive,       \* adjustNetLabels: checkPositive
    checkNegative,       \* adjustNetLabels: checkNegative
    move,                \* adjustNetLabels: move
    trial,               \* adjustNetLabels: trial
    loadedAt,            \* for every label of the screen: its position as loaded
    exhausted,           \* labels whose search left the segment in both directions
    \* ---- addBusEntries ----
    items,               \* the lines of the screen, in the order Items() enumerates them
    busEntries,          \* the SCH_BUS_WIRE_ENTRY items appended
    markers,             \* the positions of the "Bus Entry needed" markers appended
    it1,                 \* addBusEntries: it1, as an index into items
    it2,                 \* addBusEntries: it2, as an index into items
    loadedLines,         \* the lines of the screen as loaded
    labelsBefore,        \* the labels of the screen when addBusEntries is entered
    \* ---- countNets ----
    document,            \* the sheets of the schematic: for each its net elements' names
    sheetNode,           \* countNets: sheetNode, as an index into document (0: not started)
    netNode,             \* countNets: netNode, as an index into the sheet (0: not started)
    \* ---- loadInstance / loadWire / addImplicitConnections ----
    instances,           \* the instance nodes handed to loadInstance so far
    components,          \* the components appended to the screens
    loadedWires,         \* the wires loadWire has returned
    reports,             \* the messages given to m_reporter
    \* ---- loadLibrary ----
    library,             \* the device sets of the library node
    SymbolNodes,         \* aEagleLibrary->SymbolNodes
    GateUnitMap,         \* aEagleLibrary->GateUnit
    KiCadSymbols,        \* aEagleLibrary->KiCadSymbols
    devicesetNode,       \* loadLibrary: devicesetNode, as an index into library
    deviceNode,          \* loadLibrary: deviceNode, as an index into the devices
    gateNode,            \* loadLibrary: gateNode, as an index into the gates
    kpart,               \* loadLibrary: kpart, << >> outside the body of the device loop
    ispower,             \* loadLibrary: ispower
    \* ---- eagleToKicadAlignment ----
    aEagleAlignment,     \* eagleToKicadAlignment: aEagleAlignment
    aRelDegress,         \* eagleToKicadAlignment: aRelDegress
    aMirror,             \* eagleToKicadAlignment: aMirror
    aAbsDegress,         \* eagleToKicadAlignment: aAbsDegress
    align,               \* eagleToKicadAlignment: align
    aText,               \* eagleToKicadAlignment: angle and justification of aText
    \* ---- loadSheet, the translation of the items ----
    sheetcentre,         \* loadSheet: sheetcentre
    itemsCentre,         \* loadSheet: itemsCentre
    translation,         \* loadSheet: translation
    allItems,            \* loadSheet: the positions of the items of allItems
    \* ---- UnescapeString ----
    calls,               \* the calls of UnescapeString in progress, the innermost last
    returned,            \* the value the outermost call has returned
    \* ---- loadInstance, the reference of the component ----
    instancePart,        \* loadInstance: einstance.part
    package,             \* loadInstance: package
    reference            \* loadInstance: reference, as set in the reference field

sheetVars == << pc, sheet_count, sheetIndex, log, m_segments, m_wireIntersections,
                m_connPoints, pwrUnits, placed, implicitDone, m_missingCmps, synthesized >>

segVars == << m_netCounts, netName, segmentCount, segmentsLeft, nodes, groupOf,
              recordedBy, screen >>

adjustVars == << segIdx, labelIdx, segAttached, wireDirection, origPos, labelPos,
                 checkPositive, checkNegative, move, trial, loadedAt, exhausted >>

busVars == << items, busEntries, markers, it1, it2, loadedLines, labelsBefore >>

countVars == << document, sheetNode, netNode >>

\* The variables of the passes over the whole document.
implicitVars == << instances, components, loadedWires, reports >>

libraryVars == << library, SymbolNodes, GateUnitMap, KiCadSymbols, devicesetNode,
                  deviceNode, gateNode, kpart, ispower >>

alignVars == << aEagleAlignment, aRelDegress, aMirror, aAbsDegress, align, aText >>

\* The variables of the functions that are called on one value.
translationVars == << sheetcentre, itemsCentre, translation, allItems >>

unescapeVars == << calls, returned >>

referenceVars == << instancePart, package, reference >>

fnVars == << alignVars, translationVars, unescapeVars, referenceVars >>

docVars == << countVars, implicitVars, libraryVars, fnVars >>

vars == << sheetVars, segVars, adjustVars, busVars, docVars >>

\* The variables of loadSegments while another specification runs.
SegIdle ==
    /\ m_netCounts = << >>
    /\ netName = ""
    /\ segmentCount = 0
    /\ segmentsLeft = 0
    /\ nodes = << >>
    /\ groupOf = << >>
    /\ recordedBy = << >>
    /\ screen = << >>

\* The variables of adjustNetLabels while another specification runs.
AdjustIdle ==
    /\ segIdx = 0
    /\ labelIdx = 0
    /\ segAttached = << >>
    /\ wireDirection = << >>
    /\ origPos = << >>
    /\ labelPos = << >>
    /\ checkPositive = FALSE
    /\ checkNegative = FALSE
    /\ move = FALSE
    /\ trial = 0
    /\ loadedAt = << >>
    /\ exhausted = {}

\* The variables of addBusEntries while another specification runs.
BusIdle ==
    /\ items = << >>
    /\ busEntries = << >>
    /\ markers = << >>
    /\ it1 = 0
    /\ it2 = 0
    /\ loadedLines = << >>
    /\ labelsBefore = << >>

\* The variables of countNets while another specification runs.
CountIdle ==
    /\ document = << >>
    /\ sheetNode = 0
    /\ netNode = 0

\* The variables of loadInstance and loadWire while another specification runs.
ImplicitIdle ==
    /\ instances = << >>
    /\ components = << >>
    /\ loadedWires = {}
    /\ reports = << >>

\* The variables of loadLibrary while another specification runs.
LibraryIdle ==
    /\ library = << >>
    /\ SymbolNodes = << >>
    /\ GateUnitMap = << >>
    /\ KiCadSymbols = << >>
    /\ devicesetNode = 0
    /\ deviceNode = 0
    /\ gateNode = 0
    /\ kpart = << >>
    /\ ispower = FALSE

\* The variables of eagleToKicadAlignment while another specification runs.
AlignIdle ==
    /\ aEagleAlignment = 0
    /\ aRelDegress = 0
    /\ aMirror = FALSE
    /\ aAbsDegress = 0
    /\ align = 0
    /\ aText = << >>

\* The variables of the translation of loadSheet while another
\* specification runs.
TranslationIdle ==
    /\ sheetcentre = << >>
    /\ itemsCentre = << >>
    /\ translation = << >>
    /\ allItems = << >>

\* The variables of UnescapeString while another specification runs.
UnescapeIdle ==
    /\ calls = << >>
    /\ returned = << >>

\* The variables of the reference of loadInstance while another
\* specification runs.
ReferenceIdle ==
    /\ instancePart = << >>
    /\ package = << >>
    /\ reference = << >>

FnIdle == AlignIdle /\ TranslationIdle /\ UnescapeIdle /\ ReferenceIdle

DocIdle == CountIdle /\ ImplicitIdle /\ LibraryIdle /\ FnIdle

(***************************************************************************)
(* Bounds of the model.                                                    *)
(***************************************************************************)
MaxSheets == 2      \* sheets of the document
NUnits    == 3      \* gates of the multi-unit part
MaxBusses == 1      \* bus elements of a sheet
MaxNets   == 1      \* net elements of a sheet
MaxPlain  == 1      \* plain elements of a sheet

Units == 1 .. NUnits
Ref   == "U1"       \* reference of the multi-unit part

\* The pin layouts tried for the part: no power-input pin, one in the first
\* unit only, one in every unit but the first, one in every unit.
PwrChoices == { {}, {1}, Units \ {1}, Units }

(***************************************************************************)
(* std::map helpers: a map is a function over the set of its keys.         *)
(***************************************************************************)
EmptyMap == << >>

\* std::map::emplace: inserts only when the key is absent.
MapEmplace(m, k, v) == IF k \in DOMAIN m THEN m ELSE m @@ (k :> v)

\* std::map::operator[] followed by an assignment.
MapAssign(m, k, v) == (k :> v) @@ m

(***************************************************************************)
(* loadSheet: the order of its phases (the statements of lines 2091-2224). *)
(***************************************************************************)
PhaseAfter_AdjustAfterBusEntries(p) ==
    CASE p = "instances"  -> "busses"
      [] p = "busses"     -> "nets"
      [] p = "nets"       -> "busentries"
      [] p = "busentries" -> "adjust"
      [] p = "adjust"     -> "plain"
      [] p = "plain"      -> "resize"
      [] p = "resize"     -> "implicit"
      [] p = "implicit"   -> "translate"
      [] p = "translate"  -> "sheetdone"

PhaseAfter(p) ==
    CASE p = "instances"  -> "busses"
      [] p = "busses"     -> "nets"
      [] p = "nets"       -> "adjust"
      [] p = "adjust"     -> "busentries"
      [] p = "busentries" -> "plain"
      [] p = "plain"      -> "resize"
      [] p = "resize"     -> "implicit"
      [] p = "implicit"   -> "translate"
      [] p = "translate"  -> "sheetdone"

Count(s, x) == Cardinality({ i \in DOMAIN s : s[i] = x })

\* The screen of the sheet being loaded: the root screen when the document
\* has one sheet, the screen of the sub-sheet otherwise (lines 1961-2001).
OnCurrentScreen(u) == placed[u] = sheetIndex

(***************************************************************************)
(* addImplicitConnections( aComponent, aScreen, aUpdateSet ) for the       *)
(* component of unit `unit` of the part Ref: the new m_missingCmps.        *)
(* The labels it adds are not part of this group of variables.             *)
(***************************************************************************)
\* lines 4179-4208: units of the power-input pins that are not in `unit`
MissingUnits(unit, aUpdateSet) ==
    IF aUpdateSet THEN { u \in pwrUnits : ~(unit = 0 \/ u = unit) } ELSE {}

\* The loop of lines 4233-4237 written as an assignment `entry.units[i] = true`.
AddMissing_Overwrite(units, missingUnits) ==
    LET RECURSIVE Add(_, _)
        Add(m, S) ==
            IF S = {} THEN m
            ELSE LET i == CHOOSE x \in S : TRUE
                 IN  Add(MapAssign(m, i, TRUE), S \ {i})
    IN  Add(units, missingUnits)

\* lines 4233-4237: emplace under the test `find( i ) != end()`
AddMissing(units, missingUnits) ==
    LET RECURSIVE Add(_, _)
        Add(m, S) ==
            IF S = {} THEN m
            ELSE LET i == CHOOSE x \in S : TRUE
                 IN  Add(IF i \in DOMAIN m THEN MapEmplace(m, i, TRUE) ELSE m, S \ {i})
    IN  Add(units, missingUnits)

addImplicitConnections(missing, unit, aUpdateSet) ==
    IF ~(aUpdateSet /\ NUnits > 1) THEN missing
    ELSE LET first  == IF Ref \notin DOMAIN missing
                       THEN MapAssign(missing, Ref, MapEmplace(EmptyMap, unit, FALSE))
                       ELSE MapAssign(missing, Ref, MapAssign(missing[Ref], unit, FALSE))
             mu     == MissingUnits(unit, aUpdateSet)
         IN  IF mu = {} THEN first
             ELSE MapAssign(first, Ref, AddMissing(first[Ref], mu))

(***************************************************************************)
(* Actions of loadSchematic / loadSheet.                                   *)
(***************************************************************************)
SheetInit ==
    /\ pc = "start"
    /\ sheet_count \in 1 .. MaxSheets
    /\ sheetIndex = 0
    /\ log = << >>
    /\ m_segments = {}
    /\ m_wireIntersections = {}
    /\ m_connPoints = {}
    /\ pwrUnits \in PwrChoices
    /\ placed = [u \in Units |-> 0]
    /\ implicitDone = {}
    /\ m_missingCmps = EmptyMap
    /\ synthesized = << >>

\* loadSchematic lines 1968-2000: the next sheet node; loadSheet begins.
BeginSheet ==
    /\ pc \in {"start", "sheetdone"}
    /\ sheetIndex < sheet_count
    /\ sheetIndex' = sheetIndex + 1
    /\ pc' = "instances"
    /\ log' = << >>
    /\ implicitDone' = {}
    /\ UNCHANGED << sheet_count, m_segments, m_wireIntersections, m_connPoints,
                    pwrUnits, placed, m_missingCmps, synthesized >>

\* lines 2094-2098: loadInstance of one gate of the part; its pins enter
\* m_connPoints (line 2724) and the component is appended to the screen.
LoadInstance ==
    /\ pc = "instances"
    /\ \E u \in Units :
          /\ placed[u] = 0
          /\ placed' = [placed EXCEPT ![u] = sheetIndex]
          /\ m_connPoints' = m_connPoints \cup {[sheet |-> sheetIndex, item |-> "pin"]}
    /\ log' = Append(log, "instances")
    /\ UNCHANGED << pc, sheet_count, sheetIndex, m_segments, m_wireIntersections,
                    pwrUnits, implicitDone, m_missingCmps, synthesized >>

\* lines 2106-2116: loadSegments of one bus element: its segment group enters
\* m_segments, its wires m_connPoints (loadWire, lines 2401-2402).
LoadBus ==
    /\ pc = "busses"
    /\ Count(log, "busses") < MaxBusses
    /\ m_segments' = m_segments \cup {[sheet |-> sheetIndex, group |-> "bus"]}
    /\ m_connPoints' = m_connPoints \cup {[sheet |-> sheetIndex, item |-> "wire"]}
    /\ log' = Append(log, "busses")
    /\ UNCHANGED << pc, sheet_count, sheetIndex, m_wireIntersections, pwrUnits, placed,
                    implicitDone, m_missingCmps, synthesized >>

\* lines 2122-2133: loadSegments of one net element; a wire that meets a
\* wire of a group already tracked records an intersection (line 2306).
LoadNet ==
    /\ pc = "nets"
    /\ Count(log, "nets") < MaxNets
    /\ m_segments' = m_segments \cup {[sheet |-> sheetIndex, group |-> "net"]}
    /\ m_connPoints' = m_connPoints \cup {[sheet |-> sheetIndex, item |-> "wire"]}
    /\ \E crosses \in BOOLEAN :
          m_wireIntersections' =
              IF crosses /\ m_segments # {}
              THEN m_wireIntersections \cup {[sheet |-> sheetIndex]}
              ELSE m_wireIntersections
    /\ log' = Append(log, "nets")
    /\ UNCHANGED << pc, sheet_count, sheetIndex, pwrUnits, placed, implicitDone,
                    m_missingCmps, synthesized >>

\* The end of one of the three loading loops: no further node.
EndLoop ==
    /\ pc \in {"instances", "busses", "nets"}
    /\ pc' = PhaseAfter(pc)
    /\ UNCHANGED << sheet_count, sheetIndex, log, m_segments, m_wireIntersections,
                    m_connPoints, pwrUnits, placed, implicitDone, m_missingCmps,
                    synthesized >>

\* line 2135: adjustNetLabels, which ends by clearing the tracker and the
\* intersection set (lines 3566-3567).
AdjustNetLabels ==
    /\ pc = "adjust"
    /\ m_segments' = {}
    /\ m_wireIntersections' = {}
    /\ log' = Append(log, "adjust")
    /\ pc' = PhaseAfter(pc)
    /\ UNCHANGED << sheet_count, sheetIndex, m_connPoints, pwrUnits, placed,
                    implicitDone, m_missingCmps, synthesized >>

\* line 2136: addBusEntries.
AddBusEntries ==
    /\ pc = "busentries"
    /\ log' = Append(log, "busentries")
    /\ pc' = PhaseAfter(pc)
    /\ UNCHANGED << sheet_count, sheetIndex, m_segments, m_wireIntersections,
                    m_connPoints, pwrUnits, placed, implicitDone, m_missingCmps,
                    synthesized >>

\* lines 2150-2175: the plain elements; a plain wire goes through loadWire
\* and so enters m_connPoints.
LoadPlain ==
    /\ pc = "plain"
    /\ \E n \in 0 .. MaxPlain :
          m_connPoints' = IF n > 0
                          THEN m_connPoints \cup {[sheet |-> sheetIndex, item |-> "wire"]}
                          ELSE m_connPoints
    /\ log' = Append(log, "plain")
    /\ pc' = PhaseAfter(pc)
    /\ UNCHANGED << sheet_count, sheetIndex, m_segments, m_wireIntersections, pwrUnits,
                    placed, implicitDone, m_missingCmps, synthesized >>

\* lines 2177-2203: the page is resized and the translation computed.
ResizePage ==
    /\ pc = "resize"
    /\ log' = Append(log, "resize")
    /\ pc' = PhaseAfter(pc)
    /\ UNCHANGED << sheet_count, sheetIndex, m_segments, m_wireIntersections,
                    m_connPoints, pwrUnits, placed, implicitDone, m_missingCmps,
                    synthesized >>

\* lines 2206-2208: one component of the current screen, in the order the
\* item container enumerates them.
ImplicitConnection ==
    /\ pc = "implicit"
    /\ \E u \in Units :
          /\ OnCurrentScreen(u)
          /\ u \notin implicitDone
          /\ implicitDone' = implicitDone \cup {u}
          /\ m_missingCmps' = addImplicitConnections(m_missingCmps, u, TRUE)
    /\ UNCHANGED << pc, sheet_count, sheetIndex, log, m_segments, m_wireIntersections,
                    m_connPoints, pwrUnits, placed, synthesized >>

\* The end of the loop of line 2206 without the statement of line 2210.
EndImplicit_NoClear ==
    /\ pc = "implicit"
    /\ \A u \in Units : OnCurrentScreen(u) => u \in implicitDone
    /\ log' = Append(log, "implicit")
    /\ pc' = PhaseAfter(pc)
    /\ UNCHANGED << sheet_count, sheetIndex, m_segments, m_wireIntersections, m_connPoints,
                    pwrUnits, placed, implicitDone, m_missingCmps, synthesized >>

\* line 2210: every component was visited; m_connPoints.clear().
EndImplicit ==
    /\ pc = "implicit"
    /\ \A u \in Units : OnCurrentScreen(u) => u \in implicitDone
    /\ m_connPoints' = {}
    /\ log' = Append(log, "implicit")
    /\ pc' = PhaseAfter(pc)
    /\ UNCHANGED << sheet_count, sheetIndex, m_segments, m_wireIntersections, pwrUnits,
                    placed, implicitDone, m_missingCmps, synthesized >>

\* lines 2212-2224: every item is translated; loadSheet returns.
Translate ==
    /\ pc = "translate"
    /\ log' = Append(log, "translate")
    /\ pc' = PhaseAfter(pc)
    /\ UNCHANGED << sheet_count, sheetIndex, m_segments, m_wireIntersections,
                    m_connPoints, pwrUnits, placed, implicitDone, m_missingCmps,
                    synthesized >>

\* loadSchematic lines 2016-2051: every unit flagged true in m_missingCmps is
\* instantiated on the root sheet; the map is cleared.
UnitsToInstantiate(missing) ==
    IF Ref \in DOMAIN missing
    THEN { u \in DOMAIN missing[Ref] : missing[Ref][u] = TRUE }
    ELSE {}

SetToSeq(S) ==
    LET RECURSIVE Ordered(_)
        Ordered(T) == IF T = {} THEN << >>
                      ELSE LET m == CHOOSE x \in T : \A y \in T : x <= y
                           IN  << m >> \o Ordered(T \ {m})
    IN  Ordered(S)

InstantiateMissingUnits ==
    /\ pc = "sheetdone"
    /\ sheetIndex = sheet_count
    /\ synthesized' = SetToSeq(UnitsToInstantiate(m_missingCmps))
    /\ m_missingCmps' = EmptyMap
    /\ pc' = "done"
    /\ UNCHANGED << sheet_count, sheetIndex, log, m_segments, m_wireIntersections,
                    m_connPoints, pwrUnits, placed, implicitDone >>

SheetNext ==
    \/ BeginSheet
    \/ LoadInstance
    \/ LoadBus
    \/ LoadNet
    \/ EndLoop
    \/ AdjustNetLabels
    \/ AddBusEntries
    \/ LoadPlain
    \/ ResizePage
    \/ ImplicitConnection
    \/ EndImplicit
    \/ Translate
    \/ InstantiateMissingUnits

Init == SheetInit /\ SegIdle /\ AdjustIdle /\ BusIdle /\ DocIdle
Next == SheetNext /\ UNCHANGED << segVars, adjustVars, busVars, docVars >>
Spec == Init /\ [][Next]_vars

(***************************************************************************)
(* Claims about loadSchematic / loadSheet (specification Spec).            *)
(***************************************************************************)
\* The order of the phases as the specification of loadSheet states it.
StatedOrder == << "instances", "busses", "nets", "adjust", "busentries", "plain",
                  "resize", "implicit", "translate", "sheetdone" >>

Rank(p) == CHOOSE i \in DOMAIN StatedOrder : StatedOrder[i] = p

OncePhases == { "adjust", "busentries", "plain", "resize", "implicit", "translate" }

InSheet == pc \in { StatedOrder[i] : i \in DOMAIN StatedOrder }

\* C1: for every sheet, loadSheet runs its phases in the fixed order instances,
\* buses, nets, label correction, bus-entry synthesis, plain items, page resize,
\* implicit-connection labels, translation, each finishing before the next
\* starts: the phases run so far never step back in that order, none of them is
\* later than the position of loadSheet, each one-shot phase before that position
\* has run exactly once; so label correction precedes bus-entry synthesis and
\* every bus is loaded before any net.
C1_PhaseOrder ==
    InSheet =>
        /\ \A i, j \in DOMAIN log : i < j => Rank(log[i]) <= Rank(log[j])
        /\ \A i \in DOMAIN log : Rank(log[i]) <= Rank(pc)
        /\ \A p \in OncePhases :
              Count(log, p) = (IF Rank(p) < Rank(pc) THEN 1 ELSE 0)
        /\ \A i, j \in DOMAIN log : (log[i] = "nets" /\ log[j] = "busses") => j < i
        /\ \A j \in DOMAIN log :
              log[j] = "busentries" => \E i \in 1 .. j - 1 : log[i] = "adjust"

\* A second sheet was loaded to its end, with a bus and a net on it.
C1_Witness ==
    /\ pc = "sheetdone"
    /\ sheetIndex = 2
    /\ Count(log, "busses") >= 1
    /\ Count(log, "nets") >= 1
    /\ Count(log, "instances") >= 1

\* C3: after loadSchematic has processed all sheets, each unit of the
\* multi-unit part that was never placed on any sheet has been instantiated
\* exactly once on the root sheet (stated for a part of which at least one unit
\* is drawn and every unit owns a power-input pin).
C3_MissingUnitsInstantiated ==
    (/\ pc = "done"
     /\ pwrUnits = Units
     /\ \E u \in Units : placed[u] # 0)
    => /\ { synthesized[i] : i \in DOMAIN synthesized } = { u \in Units : placed[u] = 0 }
       /\ Len(synthesized) = Cardinality({ u \in Units : placed[u] = 0 })

\* C13: no unit of the part that is placed on any sheet is synthesized by the
\* final missing-unit pass, whether the sheet that places it is loaded before or
\* after the sheet on which another unit of the part recorded it as missing.
C13_PlacedNeverSynthesized ==
    pc = "done" =>
        \A i \in DOMAIN synthesized : placed[synthesized[i]] = 0

\* All sheets are done; every unit owns a power-input pin, so each placed unit
\* names the others as missing; a unit of the first sheet and a unit of the
\* second sheet are placed, each named by the other's sheet.
C13_Witness ==
    /\ pc = "done"
    /\ pwrUnits = Units
    /\ \E u, v \in Units : placed[u] = 1 /\ placed[v] = 2

\* C17: whenever loadSheet begins for a sheet, m_segments, m_wireIntersections
\* and m_connPoints contain nothing recorded while loading a previous sheet.
C17_FreshTrackers ==
    (pc = "instances" /\ log = << >>) =>
        \A e \in m_segments \cup m_wireIntersections \cup m_connPoints :
            e.sheet = sheetIndex

\* loadSheet begins for the second sheet after a first sheet that held a
\* component, so that the first sheet recorded connection points.
C17_Witness ==
    /\ pc = "instances"
    /\ log = << >>
    /\ sheetIndex = 2
    /\ \E u \in Units : placed[u] = 1

(***************************************************************************)
(* Geometry: VECTOR2I, SEG.  Points are records [x, y]; a segment is a     *)
(* record [A, B].                                                          *)
(***************************************************************************)
Pt(px, py) == [x |-> px, y |-> py]
Seg(a, b)  == [A |-> a, B |-> b]

VAdd(a, b) == Pt(a.x + b.x, a.y + b.y)
VSub(a, b) == Pt(a.x - b.x, a.y - b.y)
Abs(n)     == IF n < 0 THEN -n ELSE n
Sign(n)    == IF n < 0 THEN -1 ELSE 1

\* C++ integer division: truncation toward zero.
Div(n, d)  == Sign(n) * Sign(d) * (Abs(n) \div Abs(d))

\* VECTOR2::Cross
Cross(a, b) == a.x * b.y - a.y * b.x

Min(a, b) == IF a < b THEN a ELSE b
Max(a, b) == IF a < b THEN b ELSE a

\* SEG::Contains: the point lies on the closed segment.
Contains(seg, p) ==
    /\ Cross(VSub(seg.B, seg.A), VSub(p, seg.A)) = 0
    /\ Min(seg.A.x, seg.B.x) <= p.x /\ p.x <= Max(seg.A.x, seg.B.x)
    /\ Min(seg.A.y, seg.B.y) <= p.y /\ p.y <= Max(seg.A.y, seg.B.y)

\* Greatest common divisor of two naturals.
RECURSIVE GCD(_, _)
GCD(a, b) == IF b = 0 THEN a ELSE GCD(b, a % b)

\* n * v / d as the 64-bit arithmetic of SEG::Intersect gives it.  The
\* factors n and d, then v and d, have in common are cancelled before the
\* product is taken, which leaves the quotient as it is.
MulDiv(n, v, d) ==
    LET g1 == GCD(Abs(n), Abs(d))
        n1 == Div(n, g1)
        d1 == Div(d, g1)
        g2 == GCD(Abs(v), Abs(d1))
    IN  Div(n1 * Div(v, g2), Div(d1, g2))

\* SEG::Intersect( aSeg, aIgnoreEndpoints = true ): << >> when the segments
\* are parallel, do not meet, or meet end point to end point; otherwise the
\* point where they meet.
Intersect(this, aSeg) ==
    LET e  == VSub(this.B, this.A)
        f  == VSub(aSeg.B, aSeg.A)
        ac == VSub(aSeg.A, this.A)
        d  == Cross(f, e)
        p  == Cross(f, ac)
        q  == Cross(e, ac)
    IN  IF d = 0 THEN << >>
        ELSE IF d > 0 /\ (q < 0 \/ q > d \/ p < 0 \/ p > d) THEN << >>
        ELSE IF d < 0 /\ (q < d \/ p < d \/ p > 0 \/ q > 0) THEN << >>
        ELSE IF (q = 0 \/ q = d) /\ (p = 0 \/ p = d) THEN << >>
        ELSE << Pt(aSeg.A.x + MulDiv(q, f.x, d), aSeg.A.y + MulDiv(q, f.y, d)) >>

(***************************************************************************)
(* loadSegments (lines 2263-2380) over the bus and net elements of one     *)
(* sheet.  The elements are drawn as the loops of loadSheet reach them.    *)
(***************************************************************************)
MaxSegments == 2    \* segment groups of a sheet

BusNames == { "B1" }
NetNames == { "N1", "N2" }

\* The wires tried: a horizontal wire, one that crosses it, one that starts
\* where it ends.
WH == Seg(Pt(0, 0), Pt(200, 0))
WX == Seg(Pt(100, -100), Pt(100, 100))
WE == Seg(Pt(200, 0), Pt(200, 100))

\* The segment elements tried: their wire elements and label elements (a
\* label element stands off the wires: Eagle labels may be detached).
SegmentElements ==
    { [wires |-> << >>,       labels |-> << >>],
      [wires |-> << WH >>,     labels |-> << >>],
      [wires |-> << WH >>,     labels |-> << Pt(0, 50) >>],
      [wires |-> << WX >>,     labels |-> << >>],
      [wires |-> << WX >>,     labels |-> << Pt(0, 50) >>],
      [wires |-> << WH, WX >>, labels |-> << >>],
      [wires |-> << WH, WE >>, labels |-> << >>] }

\* escapeName, on the names of the model: none holds a character it rewrites.
escapeName(name) == name

IsBus(name) == name \in BusNames

\* lines 2296-2308: the intersections of a new wire with the segments of the
\* groups tracked so far, and for each the pair (group of the new wire, group
\* of the segment).  `cur` is the group being loaded, the last of `segments`.
RECURSIVE WireIntersections(_, _, _, _, _)
WireIntersections(thisWire, segments, aNetName, g, cur) ==
    IF g > Len(segments) THEN << >>
    ELSE LET desc == segments[g]
             skip == desc.labels # << >> /\ screen[desc.labels[1]].text = aNetName
             hits == IF skip THEN << >>
                     ELSE [k \in 1 .. Len(desc.segs) |-> Intersect(thisWire, desc.segs[k])]
             RECURSIVE Flat(_)
             Flat(k) == IF k > Len(hits) THEN << >>
                        ELSE (IF hits[k] = << >> THEN << >>
                              ELSE << [p |-> hits[k][1], of |-> << cur, g >>] >>)
                             \o Flat(k + 1)
         IN  Flat(1) \o WireIntersections(thisWire, segments, aNetName, g + 1, cur)

\* lines 2284-2315: the wire elements of the segment, in order.  The result
\* is [segments, found]: the tracker and the intersections found.
RECURSIVE LoadWires(_, _, _, _)
LoadWires(wires, segments, aNetName, found) ==
    IF wires = << >> THEN [segments |-> segments, found |-> found]
    ELSE LET cur      == Len(segments)
             thisWire == Head(wires)
             new      == WireIntersections(thisWire, segments, aNetName, 1, cur)
             pushed   == [segments EXCEPT ![cur].segs = Append(@, thisWire)]
         IN  LoadWires(Tail(wires), pushed, aNetName, found \o new)

\* loadLabel (lines 2421-2463): global when the net appears more than once.
loadLabel(pos, aNetName, counts) ==
    [type |-> IF counts[aNetName] > 1 THEN "SCH_GLOBALLABEL" ELSE "SCH_LABEL",
     pos  |-> pos,
     text |-> escapeName(aNetName)]

\* lines 2358-2376: the kind of the label added to an unlabelled segment
\* group that has a wire; "" when none is added.
SynthLabelType_CountFromOne(count, aSegmentCount) ==
    IF count >= 1 THEN "SCH_GLOBALLABEL"
    ELSE IF aSegmentCount > 1 THEN "SCH_LABEL"
    ELSE ""

SynthLabelType(count, aSegmentCount) ==
    IF count > 1 THEN "SCH_GLOBALLABEL"
    ELSE IF aSegmentCount > 1 THEN "SCH_LABEL"
    ELSE ""

\* The variables of the other groups that loadSegments leaves alone.
sheetOnlyVars == << sheet_count, sheetIndex, log, m_connPoints, pwrUnits, placed,
                    implicitDone, m_missingCmps, synthesized >>

SheetIdle ==
    /\ sheet_count = 1
    /\ sheetIndex = 1
    /\ log = << >>
    /\ m_connPoints = {}
    /\ pwrUnits = {}
    /\ placed = << >>
    /\ implicitDone = {}
    /\ m_missingCmps = EmptyMap
    /\ synthesized = << >>

\* The net-name counter after countNets: every net name of the document is
\* counted, a bus name is not.
NetCounts == [NetNames -> { 1, 2 }]

SegInit ==
    /\ pc = "busses"
    /\ m_segments = << >>
    /\ m_wireIntersections = << >>
    /\ \E c \in NetCounts : m_netCounts = c @@ [b \in BusNames |-> 0]
    /\ netName = ""
    /\ segmentCount = 0
    /\ segmentsLeft = 0
    /\ nodes = << >>
    /\ groupOf = << >>
    /\ recordedBy = << >>
    /\ screen = << >>
    /\ SheetIdle
    /\ AdjustIdle
    /\ BusIdle
    /\ DocIdle

\* loadSheet lines 2106-2133 calling loadSegments (lines 2263-2270): the next
\* bus or net element, with its name and its number of segment elements.
\* countNets has counted every net element of the sheet.
BeginSegments ==
    /\ pc \in { "busses", "nets" }
    /\ \E name \in (IF pc = "busses" THEN BusNames ELSE NetNames),
          n \in 1 .. MaxSegments :
          /\ Len(m_segments) + n <= MaxSegments
          /\ ~IsBus(name) => Count(nodes, name) < m_netCounts[name]
          /\ netName' = name
          /\ segmentCount' = n
          /\ segmentsLeft' = n
          /\ nodes' = Append(nodes, name)
    /\ pc' = IF pc = "busses" THEN "bus segments" ELSE "net segments"
    /\ UNCHANGED << m_segments, m_wireIntersections, m_netCounts, groupOf, recordedBy,
                    screen >>
    /\ UNCHANGED sheetOnlyVars

\* One pass of the loop of lines 2273-2379: a segment element with its wire
\* elements and, possibly, a label element.
LoadSegment ==
    /\ pc \in { "bus segments", "net segments" }
    /\ segmentsLeft > 0
    /\ \E segment \in SegmentElements :
          LET wires    == segment.wires
              labelsAt == segment.labels
              cur      == Len(m_segments) + 1
              start    == Append(m_segments, [segs |-> << >>, labels |-> << >>])
              loaded   == LoadWires(wires, start, netName, << >>)
              labelled == labelsAt # << >>
              labels   == [k \in DOMAIN labelsAt |->
                              loadLabel(labelsAt[k], netName, m_netCounts)]
              tracked  == [loaded.segments EXCEPT
                              ![cur].labels = [k \in DOMAIN labels |-> Len(screen) + k]]
              type     == SynthLabelType(m_netCounts[netName], segmentCount)
              explicit == [k \in DOMAIN labels |->
                              [type |-> labels[k].type, pos |-> labels[k].pos,
                               text |-> labels[k].text, group |-> cur,
                               synthesized |-> FALSE]]
              synth    == IF ~labelled /\ wires # << >> /\ type # ""
                          THEN << [type |-> type, pos |-> wires[1].A,
                                   text |-> escapeName(netName), group |-> cur,
                                   synthesized |-> TRUE] >>
                          ELSE << >>
          IN  /\ m_segments' = tracked
              /\ m_wireIntersections' =
                    m_wireIntersections \o [k \in DOMAIN loaded.found |-> loaded.found[k].p]
              /\ recordedBy' =
                    recordedBy \o [k \in DOMAIN loaded.found |-> loaded.found[k].of]
              /\ groupOf' = Append(groupOf, Len(nodes))
              /\ screen' = screen \o explicit \o synth
    /\ segmentsLeft' = segmentsLeft - 1
    /\ UNCHANGED << pc, m_netCounts, netName, segmentCount, nodes >>
    /\ UNCHANGED sheetOnlyVars

\* line 2380: loadSegments returns to the loop of loadSheet.
EndSegments ==
    /\ pc \in { "bus segments", "net segments" }
    /\ segmentsLeft = 0
    /\ pc' = IF pc = "bus segments" THEN "busses" ELSE "nets"
    /\ UNCHANGED << m_segments, m_wireIntersections, m_netCounts, netName, segmentCount,
                    segmentsLeft, nodes, groupOf, recordedBy, screen >>
    /\ UNCHANGED sheetOnlyVars

\* loadSheet: no further bus element (line 2106), no further net element
\* (line 2122).
EndElements ==
    /\ pc \in { "busses", "nets" }
    /\ pc' = IF pc = "busses" THEN "nets" ELSE "adjust"
    /\ UNCHANGED << m_segments, m_wireIntersections, m_netCounts, netName, segmentCount,
                    segmentsLeft, nodes, groupOf, recordedBy, screen >>
    /\ UNCHANGED sheetOnlyVars

SegStep ==
    \/ BeginSegments
    \/ LoadSegment
    \/ EndSegments
    \/ EndElements

SegNext == SegStep /\ UNCHANGED << adjustVars, busVars, docVars >>

SpecSegments == SegInit /\ [][SegNext]_vars

(***************************************************************************)
(* Claims about loadSegments (specification SpecSegments).                 *)
(***************************************************************************)
NameOfGroup(g) == nodes[groupOf[g]]

\* The segment groups of the element that group g is of, once it is loaded.
GroupsOfElement(g) == { h \in DOMAIN m_segments : groupOf[h] = groupOf[g] }

SynthesizedFor(g) == { i \in DOMAIN screen : screen[i].group = g /\ screen[i].synthesized }

ElementsLoaded == pc \in { "busses", "nets", "adjust" }

C9_IntersectionsAcrossNets ==
    \A k \in DOMAIN m_wireIntersections :
        /\ recordedBy[k][1] # recordedBy[k][2]
        /\ NameOfGroup(recordedBy[k][1]) # NameOfGroup(recordedBy[k][2])

(***************************************************************************)
(* adjustNetLabels (lines 3494-3568) with SEG_DESC::LabelAttached (lines   *)
(* 4131-4142) and findNearestLinePoint (lines 2466-2509), over the tracker *)
(* left by loadSegments.  Positions are in internal units.                 *)
(***************************************************************************)
MaxTrial == 12    \* displacement trials followed for one label

IU_PER_MILS == 254

Mils2iu(mils) == mils * IU_PER_MILS

\* VECTOR2::Resize, for the vectors of the model: the null vector and the
\* vectors along an axis.
Resize(v, aNewLength) ==
    CASE v.x = 0 /\ v.y = 0 -> Pt(0, 0)
      [] v.x # 0 /\ v.y = 0 -> Pt(Sign(v.x) * aNewLength, 0)
      [] v.x = 0 /\ v.y # 0 -> Pt(0, Sign(v.y) * aNewLength)

\* VECTOR2 * int and VECTOR2 / int.
VMul(v, n) == Pt(v.x * n, v.y * n)
VDiv(v, n) == Pt(Div(v.x, n), Div(v.y, n))

\* SEG::Center
Center(seg) == VAdd(seg.A, VDiv(VSub(seg.B, seg.A), 2))

\* The int expression x ^ 2 of lines 2478, 2488 and 2498: exclusive or with
\* 2, which flips the second bit of the two's complement of x.
Xor2(x) == IF x % 4 >= 2 THEN x - 2 ELSE x + 2

\* The measure d of lines 2478, 2488 and 2498, up to the square root, which
\* keeps the order.
Measure(aPoint, testpoint) ==
    Abs(Xor2(aPoint.x - testpoint.x) + Xor2(aPoint.y - testpoint.y))

\* The test points of a line, in the order of lines 2477, 2487 and 2497.
TestPoints(line) == << line.A, Center(line), line.B >>

\* findNearestLinePoint: [nearestPoint, nearestLine], nearestLine << >> for
\* nullptr.  mindistance is << >> while it holds the largest float.
findNearestLinePoint(aPoint, aLines) ==
    LET RECURSIVE Scan(_, _, _, _)
        Scan(i, mindistance, nearestPoint, nearestLine) ==
            IF i > 3 * Len(aLines) THEN [nearestPoint |-> nearestPoint,
                                         nearestLine  |-> nearestLine]
            ELSE LET line      == aLines[((i - 1) \div 3) + 1]
                     testpoint == TestPoints(line)[((i - 1) % 3) + 1]
                     d         == Measure(aPoint, testpoint)
                 IN  IF mindistance = << >> \/ d < mindistance[1]
                     THEN Scan(i + 1, << d >>, testpoint, << line >>)
                     ELSE Scan(i + 1, mindistance, nearestPoint, nearestLine)
    IN  Scan(1, << >>, Pt(0, 0), << >>)

\* SEG_DESC::LabelAttached: the first segment of the group that holds the
\* position of the label, << >> for nullptr.
LabelAttached_None(desc, aLabel) == << >>

LabelAttached(desc, aLabel) ==
    LET hits == { k \in DOMAIN desc.segs : Contains(desc.segs[k], aLabel.pos) }
    IN  IF hits = {} THEN << >>
        ELSE << desc.segs[CHOOSE k \in hits : \A j \in hits : k <= j] >>

\* The order std::sort puts the positions in.
PointLess(a, b) == a.x < b.x \/ (a.x = b.x /\ a.y < b.y)

\* line 3501
RECURSIVE SortPoints(_)
SortPoints(points) ==
    IF points = << >> THEN << >>
    ELSE LET k == CHOOSE i \in DOMAIN points :
                      \A j \in DOMAIN points :
                          ~PointLess(points[j], points[i]) /\ (points[j] = points[i] => i <= j)
         IN  << points[k] >> \o
             SortPoints([i \in 1 .. Len(points) - 1 |->
                            IF i < k THEN points[i] ELSE points[i + 1]])

\* lines 3503-3508
onIntersection(aPos) == \E k \in DOMAIN m_wireIntersections : m_wireIntersections[k] = aPos

\* line 3517: the label is placed correctly.
PlacedCorrectly(attached, aPos) == attached # << >> /\ ~onIntersection(aPos)

\* line 3542: the condition of the displacement loop.
SearchContinues_MoveOnly(mv, aPos, positive, negative) ==
    ~mv /\ (positive \/ negative)

SearchContinues(mv, aPos, positive, negative) ==
    (~mv \/ onIntersection(aPos)) /\ (positive \/ negative)

\* The wires of the model: a 50 mil wire, a zero-length wire on its middle,
\* and wires of another net that cross it or pass through its ends.
S50 == Seg(Pt(0, 0), Pt(12700, 0))
SZ  == Seg(Pt(6350, 0), Pt(6350, 0))
V0  == Seg(Pt(0, -12700), Pt(0, 12700))
VX  == Seg(Pt(6350, -12700), Pt(6350, 12700))
V3  == Seg(Pt(3175, -12700), Pt(3175, 12700))
V9  == Seg(Pt(9525, -12700), Pt(9525, 12700))
V12 == Seg(Pt(12700, -12700), Pt(12700, 12700))

\* The segment elements of the first net: wires, and at most one label, on
\* the wires or off them.
FirstElements ==
    [ wires  : { << >>, << S50 >>, << SZ >>, << SZ, S50 >>, << S50, SZ >> },
      labels : { << >>, << Pt(0, 0) >>, << Pt(3175, 0) >>, << Pt(6350, 0) >>,
                 << Pt(0, 12700) >>, << Pt(12700, 6350) >> } ]

\* The segment elements of the second net, if any.
SecondElements ==
    { << >>,
      << [wires |-> << VX >>,          labels |-> << >>] >>,
      << [wires |-> << VX >>,          labels |-> << Pt(6350, 0) >>] >>,
      << [wires |-> << V3, V9 >>,      labels |-> << Pt(3175, 0) >>] >>,
      << [wires |-> << V0, VX, V12 >>, labels |-> << Pt(0, 6350) >>] >> }

\* The labels of the elements as loadSegments appends them to the screen
\* (lines 2327-2333), the element of group g being of net names[g].
RECURSIVE LabelsOf(_, _, _)
LabelsOf(elements, names, g) ==
    IF g > Len(elements) THEN << >>
    ELSE [k \in DOMAIN elements[g].labels |->
             [type |-> "SCH_LABEL", pos |-> elements[g].labels[k],
              text |-> escapeName(names[g]), group |-> g, synthesized |-> FALSE]]
         \o LabelsOf(elements, names, g + 1)

\* The tracker and the intersections loadSegments leaves for the elements
\* (lines 2273-2333): [segments, found].
RECURSIVE TrackElements(_, _, _, _, _)
TrackElements(elements, names, g, segments, found) ==
    IF g > Len(elements) THEN [segments |-> segments, found |-> found]
    ELSE LET start  == Append(segments, [segs |-> << >>, labels |-> << >>])
             loaded == LoadWires(elements[g].wires, start, names[g], found)
             first  == Len(LabelsOf(elements, names, 1))
                       - Len(LabelsOf(elements, names, g))
             own    == [k \in DOMAIN elements[g].labels |-> first + k]
         IN  TrackElements(elements, names, g + 1,
                           [loaded.segments EXCEPT ![g].labels = own], loaded.found)

\* The variables of loadSegments that adjustNetLabels does not read.
segOnlyVars == << m_netCounts, netName, segmentCount, segmentsLeft, nodes, groupOf,
                  recordedBy >>

SegOnlyIdle ==
    /\ m_netCounts = << >>
    /\ netName = ""
    /\ segmentCount = 0
    /\ segmentsLeft = 0
    /\ nodes = << >>
    /\ groupOf = << >>
    /\ recordedBy = << >>

\* The locals of the body of the loop of line 3512, before a label is looked at.
LocalsReset ==
    /\ segAttached' = << >>
    /\ wireDirection' = Pt(0, 0)
    /\ origPos' = Pt(0, 0)
    /\ labelPos' = Pt(0, 0)
    /\ checkPositive' = TRUE
    /\ checkNegative' = TRUE
    /\ move' = FALSE
    /\ trial' = 0

locals == << segAttached, wireDirection, origPos, labelPos, checkPositive,
             checkNegative, move, trial >>

\* loadSheet at line 2135: the nets "N1" and "N2" of the sheet are loaded.
AdjustInit ==
    /\ pc = "adjust"
    /\ \E first \in FirstElements, second \in SecondElements :
          LET elements == << first >> \o second
              names    == << "N1", "N2" >>
          IN  /\ screen = LabelsOf(elements, names, 1)
              /\ LET tracked == TrackElements(elements, names, 1, << >>, << >>)
                 IN  /\ m_segments = tracked.segments
                     /\ m_wireIntersections =
                           [k \in DOMAIN tracked.found |-> tracked.found[k].p]
    /\ loadedAt = [i \in DOMAIN screen |-> screen[i].pos]
    /\ exhausted = {}
    /\ segIdx = 0
    /\ labelIdx = 0
    /\ segAttached = << >>
    /\ wireDirection = Pt(0, 0)
    /\ origPos = Pt(0, 0)
    /\ labelPos = Pt(0, 0)
    /\ checkPositive = TRUE
    /\ checkNegative = TRUE
    /\ move = FALSE
    /\ trial = 0
    /\ SheetIdle
    /\ SegOnlyIdle
    /\ BusIdle
    /\ DocIdle

\* lines 3501-3510: the intersections are sorted, the loops begin.
AdjustBegin ==
    /\ pc = "adjust"
    /\ m_wireIntersections' = SortPoints(m_wireIntersections)
    /\ segIdx' = 1
    /\ labelIdx' = 1
    /\ pc' = "label"
    /\ UNCHANGED << m_segments, screen, locals, loadedAt, exhausted >>

\* lines 3512-3539: the next label of the group.  It is left alone (lines
\* 3517-3518, 3527-3528) or the displacement search is set up.
AdjustLabel ==
    /\ pc = "label"
    /\ segIdx <= Len(m_segments)
    /\ labelIdx <= Len(m_segments[segIdx].labels)
    /\ LET segDesc  == m_segments[segIdx]
           label    == screen[segDesc.labels[labelIdx]]
           attached == LabelAttached(segDesc, label)
           nearest  == findNearestLinePoint(label.pos, segDesc.segs)
           pos      == IF attached # << >> THEN label.pos ELSE nearest.nearestPoint
           seg      == IF attached # << >> THEN attached ELSE nearest.nearestLine
       IN  IF PlacedCorrectly(attached, label.pos) \/ seg = << >>
           THEN /\ labelIdx' = labelIdx + 1
                /\ UNCHANGED << pc, locals >>
           ELSE /\ segAttached' = seg
                /\ wireDirection' = Resize(VSub(seg[1].B, seg[1].A), Mils2iu(50))
                /\ origPos' = pos
                /\ labelPos' = pos
                /\ checkPositive' = TRUE
                /\ checkNegative' = TRUE
                /\ move' = FALSE
                /\ trial' = 0
                /\ pc' = "search"
                /\ UNCHANGED labelIdx
    /\ UNCHANGED << m_segments, m_wireIntersections, screen, segIdx, loadedAt, exhausted >>

\* lines 3542-3559: one pass of the displacement loop.
AdjustTrial ==
    /\ pc = "search"
    /\ SearchContinues(move, labelPos, checkPositive, checkNegative)
    /\ trial < MaxTrial
    /\ LET step == VDiv(VMul(wireDirection, trial), 2)
           pos  == IF trial % 2 = 1 THEN VAdd(origPos, step) ELSE VSub(origPos, step)
           hit  == Contains(segAttached[1], pos)
       IN  /\ labelPos' = pos
           /\ move' = hit
           /\ IF trial % 2 = 1
              THEN checkPositive' = hit /\ UNCHANGED checkNegative
              ELSE checkNegative' = hit /\ UNCHANGED checkPositive
    /\ trial' = trial + 1
    /\ UNCHANGED << pc, m_segments, m_wireIntersections, screen, segIdx, labelIdx,
                    segAttached, wireDirection, origPos, loadedAt, exhausted >>

\* lines 3561-3562: the loop is left; the label is moved when a position was
\* found.
AdjustSetPosition ==
    /\ pc = "search"
    /\ ~SearchContinues(move, labelPos, checkPositive, checkNegative)
    /\ LET i == m_segments[segIdx].labels[labelIdx]
       IN  /\ screen' = IF move THEN [screen EXCEPT ![i].pos = labelPos] ELSE screen
           /\ exhausted' = IF ~checkPositive /\ ~checkNegative
                           THEN exhausted \cup { i } ELSE exhausted
    /\ labelIdx' = labelIdx + 1
    /\ pc' = "label"
    /\ LocalsReset
    /\ UNCHANGED << m_segments, m_wireIntersections, segIdx, loadedAt >>

\* line 3510: the labels of the group are done, the next group.
AdjustNextGroup ==
    /\ pc = "label"
    /\ segIdx <= Len(m_segments)
    /\ labelIdx > Len(m_segments[segIdx].labels)
    /\ segIdx' = segIdx + 1
    /\ labelIdx' = 1
    /\ UNCHANGED << pc, m_segments, m_wireIntersections, screen, locals, loadedAt,
                    exhausted >>

\* lines 3566-3567: the tracker and the intersections are dropped.
AdjustEnd ==
    /\ pc = "label"
    /\ segIdx > Len(m_segments)
    /\ m_segments' = << >>
    /\ m_wireIntersections' = << >>
    /\ pc' = "busentries"
    /\ UNCHANGED << screen, segIdx, labelIdx, locals, loadedAt, exhausted >>

AdjustStep ==
    \/ AdjustBegin
    \/ AdjustLabel
    \/ AdjustTrial
    \/ AdjustSetPosition
    \/ AdjustNextGroup
    \/ AdjustEnd

AdjustNext == AdjustStep /\ UNCHANGED << sheetOnlyVars, segOnlyVars, busVars, docVars >>

SpecLabels == AdjustInit /\ [][AdjustNext]_vars

(***************************************************************************)
(* Claims about adjustNetLabels (specification SpecLabels).                *)
(***************************************************************************)
\* The labels adjustNetLabels is done with, as indices into the screen.
Adjusted ==
    IF pc \notin { "label", "search" } THEN {}
    ELSE { i \in DOMAIN screen :
           \E g \in DOMAIN m_segments : \E k \in DOMAIN m_segments[g].labels :
               /\ m_segments[g].labels[k] = i
               /\ (g < segIdx \/ (g = segIdx /\ k < labelIdx)) }

OnOwnGroup(i, aPos) ==
    \E k \in DOMAIN m_segments[screen[i].group].segs :
        Contains(m_segments[screen[i].group].segs[k], aPos)

SquaredDistance(a, b) == (a.x - b.x) * (a.x - b.x) + (a.y - b.y) * (a.y - b.y)

\* C6: the displacement search of a label ends: no label is still searching
\* after MaxTrial trials, whatever the segments of its group (a zero-length
\* one included) and whether or not its anchor is a recorded intersection.
C6_SearchTerminates ==
    ~(/\ pc = "search"
      /\ trial >= MaxTrial
      /\ SearchContinues(move, labelPos, checkPositive, checkNegative))

\* C7: a label that adjustNetLabels moved lies on a segment of its own group
\* and not on a recorded intersection; a label whose search left the attached
\* segment in both directions is where it was loaded.
C7_MovedLabelsLegal ==
    \A i \in Adjusted :
        /\ screen[i].pos # loadedAt[i] =>
              OnOwnGroup(i, screen[i].pos) /\ ~onIntersection(screen[i].pos)
        /\ i \in exhausted => screen[i].pos = loadedAt[i]

\* A label loaded on a recorded intersection was moved, and another one is
\* where it was loaded after its search left the segment in both directions.
C7_Witness ==
    /\ \E i \in Adjusted : onIntersection(loadedAt[i]) /\ screen[i].pos # loadedAt[i]
    /\ \E i \in Adjusted : i \in exhausted

\* C8: when a label lies on no segment of its group, the point the search
\* starts from is the one of the start, middle and end points of the
\* segments of the group that is nearest to the label in Euclidean distance,
\* and the segment chosen is one it belongs to; no segment is chosen only
\* when the group has no segments.
C8_NearestIsEuclidean ==
    (/\ pc = "label"
     /\ segIdx <= Len(m_segments)
     /\ labelIdx <= Len(m_segments[segIdx].labels)) =>
        LET segDesc == m_segments[segIdx]
            label   == screen[segDesc.labels[labelIdx]]
            nearest == findNearestLinePoint(label.pos, segDesc.segs)
        IN  LabelAttached(segDesc, label) = << >> =>
            /\ nearest.nearestLine = << >> <=> segDesc.segs = << >>
            /\ nearest.nearestLine # << >> =>
                  /\ \E c \in DOMAIN TestPoints(nearest.nearestLine[1]) :
                        TestPoints(nearest.nearestLine[1])[c] = nearest.nearestPoint
                  /\ \A k \in DOMAIN segDesc.segs : \A c \in 1 .. 3 :
                        SquaredDistance(label.pos, nearest.nearestPoint)
                            <= SquaredDistance(label.pos, TestPoints(segDesc.segs[k])[c])

\* C10: a label loaded on a segment of its own group and not on a recorded
\* intersection is where it was loaded once adjustNetLabels is done with it.
C10_PlacedLabelsKept ==
    \A i \in Adjusted :
        (OnOwnGroup(i, loadedAt[i]) /\ ~onIntersection(loadedAt[i])) =>
            screen[i].pos = loadedAt[i]

\* A label loaded between the ends of a wire that another net crosses
\* elsewhere has been passed by.
C10_Witness ==
    \E i \in Adjusted :
        /\ OnOwnGroup(i, loadedAt[i])
        /\ ~onIntersection(loadedAt[i])
        /\ m_wireIntersections # << >>
        /\ \A k \in DOMAIN m_segments[screen[i].group].segs :
              \A c \in 1 .. 3 :
                  TestPoints(m_segments[screen[i].group].segs[k])[c] # loadedAt[i]

(***************************************************************************)
(* addBusEntries (lines 3606-4128) with moveLabels (lines 3590-3603), over *)
(* the lines and labels of the screen of a loaded sheet.  A line is a      *)
(* record [layer, start, end, gone], gone after DeleteItem.                *)
(***************************************************************************)
\* TestSegmentHit( aRefPoint, aStart, aEnd, 0 )
TestSegmentHit(aRefPoint, aStart, aEnd) == Contains(Seg(aStart, aEnd), aRefPoint)

\* SCH_BUS_WIRE_ENTRY( pos, aFlipY )
BusEntry(pos, aFlipY) == [pos |-> pos, flip |-> aFlipY]

\* moveLabels: every label on the wire goes to aNewEndPoint.
moveLabels_EndsOnly(labels, wireStart, wireEnd, aNewEndPoint) ==
    [i \in DOMAIN labels |->
        IF /\ labels[i].type \in { "SCH_LABEL", "SCH_GLOBALLABEL" }
           /\ labels[i].pos \in { wireStart, wireEnd }
        THEN [labels[i] EXCEPT !.pos = aNewEndPoint]
        ELSE labels[i]]

moveLabels(labels, wireStart, wireEnd, aNewEndPoint) ==
    [i \in DOMAIN labels |->
        IF /\ labels[i].type \in { "SCH_LABEL", "SCH_GLOBALLABEL" }
           /\ TestSegmentHit(labels[i].pos, wireStart, wireEnd)
        THEN [labels[i] EXCEPT !.pos = aNewEndPoint]
        ELSE labels[i]]

\* The work of the body of the inner loop is followed in a record w: the
\* end points of the line, whether it is deleted, the bus entries and the
\* markers appended, and the labels of the screen.

\* A bus entry is appended, the labels of the line are moved and its start
\* point is set (e.g. lines 3657-3662).
EntryAtStart(w, entry, to) ==
    [w EXCEPT !.entries = Append(@, entry),
              !.labels  = moveLabels(@, w.start, w.end, to),
              !.start   = to]

\* The same for the end point (e.g. lines 3736-3741).
EntryAtEnd(w, entry, to) ==
    [w EXCEPT !.entries = Append(@, entry),
              !.labels  = moveLabels(@, w.start, w.end, to),
              !.end     = to]

\* A "Bus Entry needed" marker is appended (e.g. lines 3676-3680).
MarkerAt(w, at) == [w EXCEPT !.markers = Append(@, at)]

\* lines 3642-3721: horizontal wire, vertical bus, the start of the wire.
HorizontalWireStart(w, linestart, lineend, busstart, busend) ==
    IF ~TestSegmentHit(linestart, busstart, busend) THEN w
    ELSE IF lineend.x < busstart.x
    THEN IF TestSegmentHit(VAdd(linestart, Pt(0, -100)), busstart, busend)
         THEN EntryAtStart(w, BusEntry(VAdd(linestart, Pt(-100, 0)), TRUE),
                           VAdd(linestart, Pt(-100, 0)))
         ELSE IF TestSegmentHit(VAdd(linestart, Pt(0, 100)), busstart, busend)
         THEN EntryAtStart(w, BusEntry(VAdd(linestart, Pt(-100, 0)), FALSE),
                           VAdd(linestart, Pt(-100, 0)))
         ELSE MarkerAt(w, linestart)
    ELSE IF TestSegmentHit(VAdd(linestart, Pt(0, -100)), busstart, busend)
         THEN EntryAtStart(w, BusEntry(VAdd(linestart, Pt(0, -100)), FALSE),
                           VAdd(linestart, Pt(100, 0)))
         ELSE IF TestSegmentHit(VAdd(linestart, Pt(0, 100)), busstart, busend)
         THEN EntryAtStart(w, BusEntry(VAdd(linestart, Pt(0, 100)), TRUE),
                           VAdd(linestart, Pt(100, 0)))
         ELSE MarkerAt(w, linestart)

\* lines 3724-3801: horizontal wire, vertical bus, the end of the wire.
HorizontalWireEnd(w, linestart, lineend, busstart, busend) ==
    IF ~TestSegmentHit(lineend, busstart, busend) THEN w
    ELSE IF linestart.x < busstart.x
    THEN IF TestSegmentHit(VAdd(lineend, Pt(0, 100)), busstart, busend)
         THEN EntryAtEnd(w, BusEntry(VAdd(lineend, Pt(-100, 0)), FALSE),
                         VAdd(lineend, Pt(-100, 0)))
         ELSE IF TestSegmentHit(VAdd(lineend, Pt(0, -100)), busstart, busend)
         THEN EntryAtEnd(w, BusEntry(VAdd(lineend, Pt(-100, 0)), TRUE),
                         VAdd(lineend, Pt(-100, 0)))
         ELSE MarkerAt(w, lineend)
    ELSE IF TestSegmentHit(VAdd(lineend, Pt(0, -100)), busstart, busend)
         THEN EntryAtEnd(w, BusEntry(VAdd(lineend, Pt(0, -100)), FALSE),
                         VAdd(lineend, Pt(100, 0)))
         ELSE IF TestSegmentHit(VAdd(lineend, Pt(0, 100)), busstart, busend)
         THEN EntryAtEnd(w, BusEntry(VAdd(lineend, Pt(0, 100)), TRUE),
                         VAdd(lineend, Pt(100, 0)))
         ELSE MarkerAt(w, lineend)

\* lines 3807-3874: vertical wire, horizontal bus, the start of the wire.
VerticalWireStart(w, linestart, lineend, busstart, busend) ==
    IF ~TestSegmentHit(linestart, busstart, busend) THEN w
    ELSE IF lineend.y < busstart.y
    THEN IF TestSegmentHit(VAdd(linestart, Pt(-100, 0)), busstart, busend)
         THEN EntryAtStart(w, BusEntry(VAdd(linestart, Pt(-100, 0)), TRUE),
                           VAdd(linestart, Pt(0, -100)))
         ELSE IF TestSegmentHit(VAdd(linestart, Pt(100, 0)), busstart, busend)
         THEN EntryAtStart(w, BusEntry(VAdd(linestart, Pt(0, 100)), FALSE),
                           VAdd(linestart, Pt(0, -100)))
         ELSE MarkerAt(w, linestart)
    ELSE IF TestSegmentHit(VAdd(linestart, Pt(-100, 0)), busstart, busend)
         THEN EntryAtStart(w, BusEntry(VAdd(linestart, Pt(-100, 0)), FALSE),
                           VAdd(linestart, Pt(0, 100)))
         ELSE IF TestSegmentHit(VAdd(linestart, Pt(100, 0)), busstart, busend)
         THEN EntryAtStart(w, BusEntry(VAdd(linestart, Pt(100, 0)), TRUE),
                           VAdd(linestart, Pt(0, 100)))
         ELSE MarkerAt(w, linestart)

\* lines 3877-3946: vertical wire, horizontal bus, the end of the wire.
VerticalWireEnd(w, linestart, lineend, busstart, busend) ==
    IF ~TestSegmentHit(lineend, busstart, busend) THEN w
    ELSE IF linestart.y < busstart.y
    THEN IF TestSegmentHit(VAdd(lineend, Pt(-100, 0)), busstart, busend)
         THEN EntryAtEnd(w, BusEntry(VAdd(lineend, Pt(-100, 0)), TRUE),
                         VAdd(lineend, Pt(0, -100)))
         ELSE IF TestSegmentHit(VAdd(lineend, Pt(100, 0)), busstart, busend)
         THEN EntryAtEnd(w, BusEntry(VAdd(lineend, Pt(0, -100)), FALSE),
                         VAdd(lineend, Pt(0, -100)))
         ELSE MarkerAt(w, lineend)
    ELSE IF TestSegmentHit(VAdd(lineend, Pt(-100, 0)), busstart, busend)
         THEN EntryAtEnd(w, BusEntry(VAdd(lineend, Pt(-100, 0)), FALSE),
                         VAdd(lineend, Pt(0, 100)))
         ELSE IF TestSegmentHit(VAdd(lineend, Pt(100, 0)), busstart, busend)
         THEN EntryAtEnd(w, BusEntry(VAdd(lineend, Pt(0, 100)), TRUE),
                         VAdd(lineend, Pt(0, 100)))
         ELSE MarkerAt(w, lineend)

\* lines 3640-3948: the two orthogonal tests, on the end points the line had
\* when the body was entered.
OrthogonalCases(w, busstart, busend) ==
    LET linestart == w.start
        lineend   == w.end
        w1 == IF linestart.y = lineend.y /\ busstart.x = busend.x
              THEN HorizontalWireEnd(
                       HorizontalWireStart(w, linestart, lineend, busstart, busend),
                       linestart, lineend, busstart, busend)
              ELSE w
    IN  IF linestart.x = lineend.x /\ busstart.y = busend.y
        THEN VerticalWireEnd(
                 VerticalWireStart(w1, linestart, lineend, busstart, busend),
                 linestart, lineend, busstart, busend)
        ELSE w1

\* A bus entry is appended and the labels of the line are moved; the line is
\* deleted when its start would reach its end, else its start point is set
\* (e.g. lines 3964-3978).
EntryOrDeleteAtStart(w, entry, p, lineend) ==
    LET placed_ == [w EXCEPT !.entries = Append(@, entry),
                             !.labels  = moveLabels(@, w.start, w.end, p)]
    IN  IF p = lineend THEN [placed_ EXCEPT !.gone = TRUE]
        ELSE [placed_ EXCEPT !.start = p]

\* The same for the end point (e.g. lines 4052-4066).
EntryOrDeleteAtEnd(w, entry, p, linestart) ==
    LET placed_ == [w EXCEPT !.entries = Append(@, entry),
                             !.labels  = moveLabels(@, w.start, w.end, p)]
    IN  IF p = linestart THEN [placed_ EXCEPT !.gone = TRUE]
        ELSE [placed_ EXCEPT !.end = p]

\* lines 3956-4042: the start of the line is on the bus; the bus entry is
\* chosen by the signs of linestart - lineend.
SignCasesStart(w, linestart, lineend, busstart, busend) ==
    IF ~TestSegmentHit(linestart, busstart, busend) THEN w
    ELSE LET wirevector == VSub(linestart, lineend)
         IN  IF wirevector.x > 0
             THEN IF wirevector.y > 0
                  THEN EntryOrDeleteAtStart(w, BusEntry(VAdd(linestart, Pt(-100, -100)), FALSE),
                                            VAdd(linestart, Pt(-100, -100)), lineend)
                  ELSE EntryOrDeleteAtStart(w, BusEntry(VAdd(linestart, Pt(-100, 100)), TRUE),
                                            VAdd(linestart, Pt(-100, 100)), lineend)
             ELSE IF wirevector.y > 0
                  THEN EntryOrDeleteAtStart(w, BusEntry(linestart, TRUE),
                                            VAdd(linestart, Pt(100, -100)), lineend)
                  ELSE EntryOrDeleteAtStart(w, BusEntry(linestart, FALSE),
                                            VAdd(linestart, Pt(100, 100)), lineend)

\* lines 4044-4124: the same for the end of the line, unless the line was
\* deleted.
SignCasesEnd(w, linestart, lineend, busstart, busend) ==
    IF w.gone \/ ~TestSegmentHit(lineend, busstart, busend) THEN w
    ELSE LET wirevector == VSub(linestart, lineend)
         IN  IF wirevector.x > 0
             THEN IF wirevector.y > 0
                  THEN EntryOrDeleteAtEnd(w, BusEntry(lineend, FALSE),
                                          VAdd(lineend, Pt(100, 100)), linestart)
                  ELSE EntryOrDeleteAtEnd(w, BusEntry(lineend, TRUE),
                                          VAdd(lineend, Pt(100, -100)), linestart)
             ELSE IF wirevector.y > 0
                  THEN EntryOrDeleteAtEnd(w, BusEntry(VAdd(lineend, Pt(-100, 100)), TRUE),
                                          VAdd(lineend, Pt(-100, 100)), linestart)
                  ELSE EntryOrDeleteAtEnd(w, BusEntry(VAdd(lineend, Pt(-100, -100)), FALSE),
                                          VAdd(lineend, Pt(-100, -100)), linestart)

\* lines 3950-4124 on the end points the line has after the orthogonal
\* tests (lines 3950-3953).
SignCases(w, busstart, busend) ==
    SignCasesEnd(SignCasesStart(w, w.start, w.end, busstart, busend),
                 w.start, w.end, busstart, busend)

\* lines 3636-4125: the body of the inner loop for a line of layer
\* LAYER_WIRE.
WireAtBus(w, busstart, busend) ==
    SignCases(OrthogonalCases(w, busstart, busend), busstart, busend)

\* The busses of the model, all through (0, 0): vertical and horizontal,
\* reaching 200 to both sides of it, to one side only, or 50 to both sides.
Busses ==
    { Seg(Pt(0, -200), Pt(0, 200)), Seg(Pt(0, -200), Pt(0, 0)),
      Seg(Pt(0, 0), Pt(0, 200)),    Seg(Pt(0, -50), Pt(0, 50)),
      Seg(Pt(-200, 0), Pt(200, 0)), Seg(Pt(-200, 0), Pt(0, 0)),
      Seg(Pt(0, 0), Pt(200, 0)),    Seg(Pt(-50, 0), Pt(50, 0)) }

\* The far ends of the wires of the model; every wire has its start or its
\* end on (0, 0), but for one that stays clear of the busses.
FarEnds ==
    { Pt(300, 0), Pt(-300, 0), Pt(0, 300), Pt(0, -300),
      Pt(300, 300), Pt(-300, 300), Pt(100, -100) }

Wires ==
    { Seg(Pt(0, 0), far) : far \in FarEnds } \cup
    { Seg(far, Pt(0, 0)) : far \in FarEnds } \cup
    { Seg(Pt(300, 300), Pt(400, 300)) }

\* The label of the net of the wire: none, or one on the start, the middle
\* or the end of the wire.
WireLabels(wire) ==
    { << >> } \cup
    { << [type |-> "SCH_LABEL", pos |-> at, text |-> "N1", group |-> 1,
          synthesized |-> FALSE] >> : at \in { wire.A, Center(wire), wire.B } }

SchLine(layer, seg) == [layer |-> layer, start |-> seg.A, end |-> seg.B, gone |-> FALSE]

\* The variables of the other groups that addBusEntries leaves alone.
busOtherVars == << sheetOnlyVars, m_segments, m_wireIntersections, segOnlyVars,
                   adjustVars, docVars >>

\* loadSheet at line 2136: a bus and a wire are on the screen.  Items()
\* enumerates the two lines in either order.
BusInit ==
    /\ pc = "busentries"
    /\ \E bus \in Busses, wire \in Wires :
          /\ items \in { << SchLine("LAYER_BUS", bus), SchLine("LAYER_WIRE", wire) >>,
                         << SchLine("LAYER_WIRE", wire), SchLine("LAYER_BUS", bus) >> }
          /\ screen \in WireLabels(wire)
    /\ loadedLines = items
    /\ labelsBefore = screen
    /\ busEntries = << >>
    /\ markers = << >>
    /\ it1 = 0
    /\ it2 = 0
    /\ m_segments = << >>
    /\ m_wireIntersections = << >>
    /\ SheetIdle
    /\ SegOnlyIdle
    /\ AdjustIdle
    /\ DocIdle

\* line 3614: the outer loop begins.
BusEntriesBegin ==
    /\ pc = "busentries"
    /\ it1' = 1
    /\ pc' = "bus"
    /\ UNCHANGED << items, busEntries, markers, it2, loadedLines, labelsBefore, screen >>

\* lines 3614-3628: the next line of the outer loop; a line that is no bus
\* is passed by, for a bus the inner loop begins behind it.
NextBus ==
    /\ pc = "bus"
    /\ it1 <= Len(items)
    /\ IF items[it1].gone \/ items[it1].layer # "LAYER_BUS"
       THEN /\ it1' = it1 + 1
            /\ UNCHANGED << pc, it2 >>
       ELSE /\ it2' = it1 + 1
            /\ pc' = "wire"
            /\ UNCHANGED it1
    /\ UNCHANGED << items, busEntries, markers, loadedLines, labelsBefore, screen >>

\* lines 3630-4126: the next line of the inner loop.
NextWire ==
    /\ pc = "wire"
    /\ it2 <= Len(items)
    /\ LET bus  == items[it1]
           line == items[it2]
           w    == WireAtBus([start |-> line.start, end |-> line.end, gone |-> FALSE,
                              entries |-> busEntries, markers |-> markers,
                              labels |-> screen],
                             bus.start, bus.end)
       IN  IF line.gone \/ line.layer # "LAYER_WIRE"
           THEN UNCHANGED << items, busEntries, markers, screen >>
           ELSE /\ items' = [items EXCEPT ![it2].start = w.start, ![it2].end = w.end,
                                          ![it2].gone = w.gone]
                /\ busEntries' = w.entries
                /\ markers' = w.markers
                /\ screen' = w.labels
    /\ it2' = it2 + 1
    /\ UNCHANGED << pc, it1, loadedLines, labelsBefore >>

\* line 3630: the inner loop is done, the outer loop goes on.
EndWires ==
    /\ pc = "wire"
    /\ it2 > Len(items)
    /\ it1' = it1 + 1
    /\ pc' = "bus"
    /\ UNCHANGED << items, busEntries, markers, it2, loadedLines, labelsBefore, screen >>

\* line 4127: the outer loop is done; loadSheet goes on at line 2138.
BusEntriesEnd ==
    /\ pc = "bus"
    /\ it1 > Len(items)
    /\ pc' = "plain"
    /\ UNCHANGED << items, busEntries, markers, it1, it2, loadedLines, labelsBefore, screen >>

BusStep ==
    \/ BusEntriesBegin
    \/ NextBus
    \/ NextWire
    \/ EndWires
    \/ BusEntriesEnd

BusNext == BusStep /\ UNCHANGED busOtherVars

SpecBusEntries == BusInit /\ [][BusNext]_vars

(***************************************************************************)
(* Claims about addBusEntries (specification SpecBusEntries).              *)
(***************************************************************************)
BusEntriesDone == pc = "plain"

\* The lines of a layer, as indices into items.
LinesOf(layer) == { i \in DOMAIN loadedLines : loadedLines[i].layer = layer }

\* The wire as loaded is horizontal or vertical, of non-zero length, and
\* perpendicular to the bus.
Perpendicular(wire, bus) ==
    \/ wire.start.y = wire.end.y /\ wire.start.x # wire.end.x /\ bus.start.x = bus.end.x
    \/ wire.start.x = wire.end.x /\ wire.start.y # wire.end.y /\ bus.start.y = bus.end.y

\* The two points 100 along the bus from a point of it.
AlongBus(bus, at) ==
    IF bus.start.x = bus.end.x
    THEN { VAdd(at, Pt(0, -100)), VAdd(at, Pt(0, 100)) }
    ELSE { VAdd(at, Pt(-100, 0)), VAdd(at, Pt(100, 0)) }

\* The bus reaches 100 to a side of a point of it.
BusExtends(bus, at) == \E q \in AlongBus(bus, at) : TestSegmentHit(q, bus.start, bus.end)

\* The point is on the line through the bus.
OnBusLine(bus, at) == Cross(VSub(bus.end, bus.start), VSub(at, bus.start)) = 0

\* The end points ("start", "end") of the wire as loaded that are on the bus.
EndsOnBus(wire, bus) ==
    { e \in { "start", "end" } :
        TestSegmentHit(IF e = "start" THEN wire.start ELSE wire.end, bus.start, bus.end) }

\* C4: after addBusEntries, for a bus and a horizontal or vertical wire
\* perpendicular to it with an end point on the bus, the bus reaching 100 to
\* a side of that point, exactly one bus entry has been created (the screen
\* of the model holds one wire) and that end point of the wire is no longer
\* on the line of the bus.
C4_OneEntryPerEndpoint ==
    BusEntriesDone =>
        \A b \in LinesOf("LAYER_BUS"), l \in LinesOf("LAYER_WIRE") :
            \A e \in EndsOnBus(loadedLines[l], loadedLines[b]) :
                LET at == IF e = "start" THEN loadedLines[l].start ELSE loadedLines[l].end
                    to == IF e = "start" THEN items[l].start ELSE items[l].end
                IN  (Perpendicular(loadedLines[l], loadedLines[b])
                     /\ BusExtends(loadedLines[b], at)) =>
                        /\ Len(busEntries) = 1
                        /\ ~items[l].gone
                        /\ ~OnBusLine(loadedLines[b], to)

\* C5: after addBusEntries, for a bus enumerated before a horizontal or
\* vertical wire perpendicular to it with an end point on the bus, the bus
\* reaching 100 to neither side of that point, the only item appended is a
\* marker at that point: no bus entry, and the wire has the start and end
\* points it was loaded with.
C5_MarkerOnly ==
    BusEntriesDone =>
        \A b \in LinesOf("LAYER_BUS"), l \in LinesOf("LAYER_WIRE") :
            \A e \in EndsOnBus(loadedLines[l], loadedLines[b]) :
                LET at == IF e = "start" THEN loadedLines[l].start ELSE loadedLines[l].end
                IN  (b < l
                     /\ Perpendicular(loadedLines[l], loadedLines[b])
                     /\ ~BusExtends(loadedLines[b], at)) =>
                        /\ markers = << at >>
                        /\ busEntries = << >>
                        /\ items[l] = loadedLines[l]

\* The end points ("start", "end") of the wire that addBusEntries has set.
MovedEnds(l) ==
    { e \in { "start", "end" } :
        IF e = "start" THEN items[l].start # loadedLines[l].start
        ELSE items[l].end # loadedLines[l].end }

\* C11: after addBusEntries, when an end point of a wire was moved, every
\* local or global label that lay on the wire before is on an end point the
\* wire was moved to.
C11_LabelsFollowWire ==
    BusEntriesDone =>
        \A l \in LinesOf("LAYER_WIRE") :
            (~items[l].gone /\ MovedEnds(l) # {}) =>
                \A i \in DOMAIN labelsBefore :
                    (/\ labelsBefore[i].type \in { "SCH_LABEL", "SCH_GLOBALLABEL" }
                     /\ TestSegmentHit(labelsBefore[i].pos, loadedLines[l].start,
                                       loadedLines[l].end)) =>
                        \E e \in MovedEnds(l) :
                            screen[i].pos = (IF e = "start" THEN items[l].start
                                             ELSE items[l].end)

\* A label loaded between the ends of a wire is on the end point the wire
\* was moved to.
C11_Witness ==
    /\ BusEntriesDone
    /\ \E l \in LinesOf("LAYER_WIRE") : \E i \in DOMAIN labelsBefore :
          /\ ~items[l].gone
          /\ labelsBefore[i].pos \notin { loadedLines[l].start, loadedLines[l].end }
          /\ TestSegmentHit(labelsBefore[i].pos, loadedLines[l].start, loadedLines[l].end)
          /\ items[l].start # loadedLines[l].start
          /\ screen[i].pos = items[l].start

\* The two ends of a bus entry: its position, and 100 to the right of it and
\* 100 down, or up when it is flipped.
EntryEnds(entry) ==
    { entry.pos,
      VAdd(entry.pos, IF entry.flip THEN Pt(100, -100) ELSE Pt(100, 100)) }

\* C23: after addBusEntries, for a bus enumerated before a horizontal or
\* vertical wire perpendicular to it with an end point on the bus, the bus
\* reaching 100 to a side of that point, a bus entry has been created with
\* one end on the line of the bus and the other end on the point that end of
\* the wire was set to.
C23_EntryJoinsBusAndWire ==
    BusEntriesDone =>
        \A b \in LinesOf("LAYER_BUS"), l \in LinesOf("LAYER_WIRE") :
            \A e \in EndsOnBus(loadedLines[l], loadedLines[b]) :
                LET at == IF e = "start" THEN loadedLines[l].start ELSE loadedLines[l].end
                    to == IF e = "start" THEN items[l].start ELSE items[l].end
                IN  (b < l
                     /\ Perpendicular(loadedLines[l], loadedLines[b])
                     /\ BusExtends(loadedLines[b], at)) =>
                        \E k \in DOMAIN busEntries :
                            \E p \in EntryEnds(busEntries[k]) :
                                /\ OnBusLine(loadedLines[b], p)
                                /\ EntryEnds(busEntries[k]) \ { p } = { to }

\* What the body of the inner loop makes of a wire as loaded, at a bus.
Processed(l, b) ==
    WireAtBus([start |-> loadedLines[l].start, end |-> loadedLines[l].end,
               gone |-> FALSE, entries |-> << >>, markers |-> << >>,
               labels |-> labelsBefore],
              loadedLines[b].start, loadedLines[b].end)

\* C24: after addBusEntries, for a bus and a wire with an end point on it,
\* the bus entries, the markers, the labels and the end points of the wire
\* are what the body of the inner loop makes of that wire at that bus,
\* whichever of the two lines is enumerated first.
C24_OrderIndependent ==
    BusEntriesDone =>
        \A b \in LinesOf("LAYER_BUS"), l \in LinesOf("LAYER_WIRE") :
            EndsOnBus(loadedLines[l], loadedLines[b]) # { } =>
                /\ busEntries = Processed(l, b).entries
                /\ markers = Processed(l, b).markers
                /\ screen = Processed(l, b).labels
                /\ items[l].gone = Processed(l, b).gone
                /\ items[l].start = Processed(l, b).start
                /\ items[l].end = Processed(l, b).end

\* The line is horizontal or vertical.
Orthogonal(line) == line.start.x = line.end.x \/ line.start.y = line.end.y

\* C25: after addBusEntries, a wire that was loaded horizontal or vertical
\* is still on the screen and is horizontal or vertical: the rule by the
\* signs of the direction of the wire has neither deleted it nor moved an
\* end point of it diagonally.
C25_OrthogonalStaysOrthogonal ==
    BusEntriesDone =>
        \A l \in LinesOf("LAYER_WIRE") :
            Orthogonal(loadedLines[l]) => (~items[l].gone /\ Orthogonal(items[l]))

(***************************************************************************)
(* countNets (lines 1883-1914): the net elements of every sheet of the     *)
(* schematic are counted by name.                                          *)
(***************************************************************************)
MaxSheetNets == 2   \* net elements of a sheet of the document

\* The sequences over S of length lo .. hi.
SeqsOf(S, lo, hi) == UNION { [1 .. n -> S] : n \in lo .. hi }

\* The documents tried: up to MaxSheets sheets, each with up to MaxSheetNets
\* net elements named from NetNames.
Documents == SeqsOf(SeqsOf(NetNames, 0, MaxSheetNets), 1, MaxSheets)

\* lines 1903-1906
CountNet(counts, name) ==
    IF name \in DOMAIN counts
    THEN MapAssign(counts, name, counts[name] + 1)
    ELSE MapAssign(counts, name, 1)

CountInit ==
    /\ pc = "countNets"
    /\ document \in Documents
    /\ sheetNode = 0
    /\ netNode = 0
    /\ m_segments = << >>
    /\ m_wireIntersections = << >>
    /\ screen = << >>
    /\ SheetIdle
    /\ SegOnlyIdle
    /\ AdjustIdle
    /\ BusIdle
    /\ ImplicitIdle
    /\ LibraryIdle
    /\ FnIdle

countOtherVars == << sheetOnlyVars, m_segments, m_wireIntersections, netName,
                    segmentCount, segmentsLeft, nodes, groupOf, recordedBy, screen,
                    adjustVars, busVars, implicitVars, libraryVars, fnVars >>

\* line 1889: the first sheet node.
CountBegin ==
    /\ pc = "countNets"
    /\ sheetNode = 0
    /\ sheetNode' = 1
    /\ netNode' = 1
    /\ UNCHANGED << pc, document, m_netCounts >>

\* lines 1899-1910: one net node of the sheet.
CountNetNode ==
    /\ pc = "countNets"
    /\ sheetNode \in DOMAIN document
    /\ netNode \in DOMAIN document[sheetNode]
    /\ m_netCounts' = CountNet(m_netCounts, document[sheetNode][netNode])
    /\ netNode' = netNode + 1
    /\ UNCHANGED << pc, document, sheetNode >>

\* line 1912: no further net node; the next sheet node (line 1897 for it).
CountNextSheet ==
    /\ pc = "countNets"
    /\ sheetNode \in DOMAIN document
    /\ netNode \notin DOMAIN document[sheetNode]
    /\ sheetNode' = sheetNode + 1
    /\ netNode' = 1
    /\ UNCHANGED << pc, document, m_netCounts >>

\* line 1891: no further sheet node; countNets returns.
CountEnd ==
    /\ pc = "countNets"
    /\ sheetNode = Len(document) + 1
    /\ pc' = "counted"
    /\ UNCHANGED << document, sheetNode, netNode, m_netCounts >>

CountStep ==
    \/ CountBegin
    \/ CountNetNode
    \/ CountNextSheet
    \/ CountEnd

CountNext == CountStep /\ UNCHANGED countOtherVars

SpecCountNets == CountInit /\ [][CountNext]_vars

(***************************************************************************)
(* Claims about countNets (specification SpecCountNets).                   *)
(***************************************************************************)
\* The counter of a name, 0 for a name the map does not hold.
Counter(name) == IF name \in DOMAIN m_netCounts THEN m_netCounts[name] ELSE 0

\* The sheets on which a net of that name appears.
SheetsWith(name) ==
    { sh \in DOMAIN document : \E n \in DOMAIN document[sh] : document[sh][n] = name }

\* C14: after countNets, for every net name the counter equals the number of
\* distinct sheets on which a net with that name appears.
C14_CountsDistinctSheets ==
    pc = "counted" =>
        \A name \in NetNames : Counter(name) = Cardinality(SheetsWith(name))

(***************************************************************************)
(* loadInstance (lines 2512-2729), loadWire (lines 2383-2405) and the      *)
(* labels of addImplicitConnections (lines 4162-4208), with m_connPoints   *)
(* as the map it is: position -> set of items.                             *)
(*                                                                         *)
(* The part list holds the multi-unit part U1, the power symbol P1, the    *)
(* part Q1 whose symbol is not in the imported library and the part T1     *)
(* whose symbol the symbol library table does not return.                  *)
(***************************************************************************)
MaxInstances == 2   \* instance nodes of the document

m_partlist == { "U1", "P1", "Q1", "T1" }

\* The parts the instance nodes name: X1 is not in the part list.
InstanceParts == m_partlist \cup { "X1" }

\* m_pi->LoadSymbol (line 2554) and schLibTable.LoadSymbol (line 2714)
InImportedLibrary(part) == part \in { "U1", "P1", "T1" }
InLibTable(part)        == part \in { "U1", "P1" }

IsPower(part)      == part = "P1"
GetUnitCount(part) == IF part = "U1" THEN NUnits ELSE 1

\* A pin name as wxString: a sequence of characters.
PinName(u) ==
    IF u = 1 THEN << "G", "N", "D" >> ELSE << "V", "C", "C", "@", ToString(u) >>

\* The pins of the symbol of a part: a passive pin in every unit; a power-input
\* pin in the units of pwrUnits for U1 and in the only unit of P1.
GetPins(part) ==
    LET units == 1 .. GetUnitCount(part)
        power == IF part = "U1" THEN pwrUnits ELSE IF IsPower(part) THEN { 1 } ELSE {}
    IN  { [name |-> PinName(u), type |-> "PT_POWER_IN", unit |-> u, at |-> Pt(0, 0)] :
            u \in power }
        \cup
        { [name |-> << "A" >>, type |-> "PT_PASSIVE", unit |-> u, at |-> Pt(100, 0)] :
            u \in units }

\* SCH_COMPONENT::GetLibPins: the pins of the unit of the component.
GetLibPins(component) ==
    { pin \in GetPins(component.part) :
        component.unit = 0 \/ pin.unit = 0 \/ pin.unit = component.unit }

GetPinPhysicalPosition(component, pin) == VAdd(component.at, pin.at)

\* line 1492: wxString::BeforeFirst( '@' )
extractNetName(aPinName) ==
    LET RECURSIVE Before(_)
        Before(k) == IF k > Len(aPinName) \/ aPinName[k] = "@" THEN << >>
                     ELSE << aPinName[k] >> \o Before(k + 1)
    IN  Before(1)

\* m_connPoints[pos].emplace( item )
Emplace(connPoints, pos, item) ==
    IF pos \in DOMAIN connPoints
    THEN MapAssign(connPoints, pos, connPoints[pos] \cup { item })
    ELSE MapAssign(connPoints, pos, { item })

\* The instance nodes tried: a gate of the part; the first gate is drawn at
\* the origin, a further gate where its power-input pin meets the passive pin
\* of the gate before it.
InstancePosition(gate) == Pt(100 * (gate - 1), 0)

Instances ==
    UNION { { [part |-> p, gate |-> g, at |-> InstancePosition(g)] :
                g \in 1 .. GetUnitCount(p) } :
            p \in InstanceParts }

\* line 2543: GateUnit[gatename], 0 for a gate name the library does not hold
GateUnit(part, gate) == IF gate \in 1 .. GetUnitCount(part) THEN gate ELSE 0

\* The wires tried: one that ends on the position of a pin, one that passes
\* over pin positions without ending there.
WireChoices == { Seg(Pt(0, 0), Pt(0, 100)), Seg(Pt(-100, 0), Pt(900, 0)) }

\* lines 2523-2533, 2553-2562, 2716: why loadInstance returns early, "" if it
\* does not.
EarlyReturn(einstance) ==
    IF einstance.part \notin m_partlist THEN "noPart"
    ELSE IF ~InImportedLibrary(einstance.part) THEN "noSymbol"
    ELSE IF ~InLibTable(einstance.part) THEN "noLibSymbol"
    ELSE ""

\* The component of lines 2564-2568, made whatever the part and its symbol.
loadInstance_NoReturn(einstance, node) ==
    << [node |-> node, sheet |-> sheetIndex, part |-> einstance.part,
        unit |-> GateUnit(einstance.part, einstance.gate), at |-> einstance.at] >>

\* lines 2512-2728: the component loadInstance appends, << >> when it returns
\* early.
loadInstance(einstance, node) ==
    IF EarlyReturn(einstance) # "" THEN << >>
    ELSE << [node |-> node, sheet |-> sheetIndex, part |-> einstance.part,
             unit |-> GateUnit(einstance.part, einstance.gate), at |-> einstance.at] >>

\* lines 2527-2530 and 2558-2560: the message of an early return.
Report(einstance, node) ==
    IF EarlyReturn(einstance) \in { "noPart", "noSymbol" }
    THEN << [severity |-> "RPT_SEVERITY_ERROR", node |-> node] >>
    ELSE << >>

\* lines 2720-2724: the pins of the component enter m_connPoints.
SavePinPositions(connPoints, component) ==
    LET RECURSIVE Save(_, _)
        Save(m, pins) ==
            IF pins = {} THEN m
            ELSE LET pin == CHOOSE x \in pins : TRUE
                 IN  Save(Emplace(m, GetPinPhysicalPosition(component, pin),
                                  [kind |-> "pin", node |-> component.node,
                                   name |-> pin.name, unit |-> pin.unit]),
                          pins \ { pin })
    IN  Save(connPoints, GetLibPins(component))

\* lines 2401-2402
loadWire(connPoints, wire, id) ==
    Emplace(Emplace(connPoints, wire.A, [kind |-> "wire", id |-> id]),
            wire.B, [kind |-> "wire", id |-> id])

\* lines 4147-4159, with any item at the position taken as a connection
checkConnections_AnyItem(connPoints, component, pin) ==
    LET pinPosition == GetPinPhysicalPosition(component, pin)
    IN  IF pinPosition \notin DOMAIN connPoints THEN FALSE
        ELSE Cardinality(connPoints[pinPosition]) > 0

\* lines 4147-4159
checkConnections(connPoints, component, pin) ==
    LET pinPosition == GetPinPhysicalPosition(component, pin)
    IN  IF pinPosition \notin DOMAIN connPoints THEN FALSE
        ELSE Cardinality(connPoints[pinPosition]) > 1

\* lines 4179-4198: the global labels addImplicitConnections appends for the
\* component, in the order of the units of the pins.
NetLabels(connPoints, component) ==
    IF IsPower(component.part) THEN << >>
    ELSE LET unit  == component.unit
             added == { pin \in GetPins(component.part) :
                          /\ pin.type = "PT_POWER_IN"
                          /\ (unit = 0 \/ pin.unit = unit)
                          /\ ~checkConnections(connPoints, component, pin) }
             order == SetToSeq({ pin.unit : pin \in added })
         IN  [k \in DOMAIN order |->
                LET pin == CHOOSE x \in added : x.unit = order[k]
                IN  [type |-> "SCH_GLOBALLABEL",
                     pos  |-> GetPinPhysicalPosition(component, pin),
                     text |-> extractNetName(pin.name),
                     sheet |-> component.sheet]]

ImplicitInit ==
    /\ pc = "instances"
    /\ sheet_count \in 1 .. MaxSheets
    /\ sheetIndex = 1
    /\ m_connPoints = EmptyMap
    /\ pwrUnits \in PwrChoices \ { {} }
    /\ m_missingCmps = EmptyMap
    /\ implicitDone = {}
    /\ instances = << >>
    /\ components = << >>
    /\ loadedWires = {}
    /\ reports = << >>
    /\ screen = << >>
    /\ log = << >>
    /\ placed = << >>
    /\ synthesized = << >>
    /\ m_segments = << >>
    /\ m_wireIntersections = << >>
    /\ SegOnlyIdle
    /\ AdjustIdle
    /\ BusIdle
    /\ CountIdle
    /\ LibraryIdle
    /\ FnIdle

implicitOtherVars == << sheet_count, pwrUnits, log, placed, synthesized, m_segments,
                       m_wireIntersections, segOnlyVars, adjustVars, busVars, countVars,
                       libraryVars, fnVars >>

\* loadSheet lines 2094-2098: loadInstance of the next instance node.
InstanceNode ==
    /\ pc = "instances"
    /\ Len(instances) < MaxInstances
    /\ \E einstance \in Instances :
          LET node  == Len(instances) + 1
              added == loadInstance(einstance, node)
          IN  /\ instances' = Append(instances, einstance)
              /\ reports' = reports \o Report(einstance, node)
              /\ components' = components \o added
              /\ m_connPoints' = IF added = << >> THEN m_connPoints
                                 ELSE SavePinPositions(m_connPoints, added[1])
    /\ UNCHANGED << pc, sheetIndex, loadedWires, screen, implicitDone, m_missingCmps >>

\* loadSheet lines 2100-2175: loadWire of a wire of a bus, a net or the plain
\* elements; every wire of WireChoices is in the document at most once.
WireNode ==
    /\ pc = "nets"
    /\ \E wire \in WireChoices :
          /\ wire \notin { w.line : w \in loadedWires }
          /\ loadedWires' = loadedWires \cup { [sheet |-> sheetIndex, line |-> wire] }
          /\ m_connPoints' = loadWire(m_connPoints, wire, wire)
    /\ UNCHANGED << pc, sheetIndex, instances, components, reports, screen,
                    implicitDone, m_missingCmps >>

\* No further instance node; no further wire (line 2205 is reached).
EndNodes ==
    /\ pc \in { "instances", "nets" }
    /\ pc' = IF pc = "instances" THEN "nets" ELSE "implicit"
    /\ UNCHANGED << sheetIndex, instances, components, loadedWires, reports, screen,
                    m_connPoints, implicitDone, m_missingCmps >>

\* lines 2206-2208: addImplicitConnections for one component of the screen.
ImplicitComponent ==
    /\ pc = "implicit"
    /\ \E i \in DOMAIN components :
          LET component == components[i]
          IN  /\ component.sheet = sheetIndex
              /\ component.node \notin implicitDone
              /\ implicitDone' = implicitDone \cup { component.node }
              /\ screen' = screen \o NetLabels(m_connPoints, component)
              /\ m_missingCmps' =
                     IF IsPower(component.part) \/ GetUnitCount(component.part) <= 1
                     THEN m_missingCmps
                     ELSE addImplicitConnections(m_missingCmps, component.unit, TRUE)
    /\ UNCHANGED << pc, sheetIndex, instances, components, loadedWires, reports,
                    m_connPoints >>

\* line 2210: m_connPoints.clear(); loadSheet goes on and returns, and
\* loadSchematic takes the next sheet node.
ImplicitEnd ==
    /\ pc = "implicit"
    /\ \A i \in DOMAIN components :
          components[i].sheet = sheetIndex => components[i].node \in implicitDone
    /\ m_connPoints' = EmptyMap
    /\ implicitDone' = {}
    /\ IF sheetIndex < sheet_count
       THEN sheetIndex' = sheetIndex + 1 /\ pc' = "instances"
       ELSE sheetIndex' = sheetIndex /\ pc' = "sheetsdone"
    /\ UNCHANGED << instances, components, loadedWires, reports, screen, m_missingCmps >>

ImplicitStep ==
    \/ InstanceNode
    \/ WireNode
    \/ EndNodes
    \/ ImplicitComponent
    \/ ImplicitEnd

ImplicitNext == ImplicitStep /\ UNCHANGED implicitOtherVars

SpecImplicit == ImplicitInit /\ [][ImplicitNext]_vars

(***************************************************************************)
(* Claims about loadInstance and addImplicitConnections (specification     *)
(* SpecImplicit).                                                          *)
(***************************************************************************)
\* The components of the current screen that the loop of line 2206 has visited.
Visited ==
    { components[i] : i \in { j \in DOMAIN components :
                                  /\ components[j].sheet = sheetIndex
                                  /\ components[j].node \in implicitDone } }

\* The power-input pins of the unit of the component.
PowerInputPins(component) ==
    { pin \in GetPins(component.part) :
        pin.type = "PT_POWER_IN" /\ pin.unit = component.unit }

\* What the connection-point map records at the position of the pin besides
\* the pin itself: wire ends and other pins.
OtherItems(component, pin) ==
    LET pos == VAdd(component.at, pin.at)
    IN  IF pos \notin DOMAIN m_connPoints THEN {}
        ELSE { item \in m_connPoints[pos] :
                 ~(/\ item.kind = "pin"
                   /\ item.node = component.node
                   /\ item.name = pin.name
                   /\ item.unit = pin.unit) }

\* The pin name up to the first '@': the prefix without '@' that is the whole
\* name or is followed by '@'.
UpToFirstAt(name) ==
    LET k == CHOOSE n \in 0 .. Len(name) :
                 /\ \A j \in 1 .. n : name[j] # "@"
                 /\ n = Len(name) \/ name[n + 1] = "@"
    IN  SubSeq(name, 1, k)

\* The global labels of the current screen at the pin, named after its net.
LabelsAtPin(component, pin) ==
    { i \in DOMAIN screen :
        /\ screen[i].type = "SCH_GLOBALLABEL"
        /\ screen[i].sheet = component.sheet
        /\ screen[i].pos = VAdd(component.at, pin.at)
        /\ screen[i].text = UpToFirstAt(pin.name) }

\* C12: for every component of the sheet that is not a power symbol and every
\* power-input pin of the component's unit, addImplicitConnections has added a
\* global label named after the pin's net name (the pin name up to the first
\* '@') at the pin's position if and only if the connection-point map records
\* no wire end and no other pin at that position; it has added no other label.
C12_LabelIffUnconnected ==
    pc = "implicit" =>
        /\ \A component \in Visited :
              ~IsPower(component.part) =>
                  \A pin \in PowerInputPins(component) :
                      Cardinality(LabelsAtPin(component, pin)) =
                          (IF OtherItems(component, pin) = {} THEN 1 ELSE 0)
        /\ \A i \in DOMAIN screen :
              screen[i].sheet = sheetIndex =>
                  \E component \in Visited :
                      /\ ~IsPower(component.part)
                      /\ \E pin \in PowerInputPins(component) : i \in LabelsAtPin(component, pin)

\* Two components were visited: one got a label, named by the part of its pin
\* name before the '@', at a pin a wire passes over without ending there; the
\* other has a pin or a wire end on its power-input pin and got none.
C12_Witness ==
    /\ pc = "implicit"
    /\ Seg(Pt(-100, 0), Pt(900, 0)) \in { w.line : w \in { x \in loadedWires : x.sheet = sheetIndex } }
    /\ \E c1, c2 \in Visited :
          /\ ~IsPower(c1.part)
          /\ ~IsPower(c2.part)
          /\ \E pin \in PowerInputPins(c1) :
                /\ \E j \in DOMAIN pin.name : pin.name[j] = "@"
                /\ LabelsAtPin(c1, pin) # {}
          /\ \E pin \in PowerInputPins(c2) :
                /\ OtherItems(c2, pin) # {}
                /\ LabelsAtPin(c2, pin) = {}

\* The instance nodes of the claim: the part is not in the part list, or its
\* symbol cannot be loaded from the imported library.
Unloadable(einstance) ==
    einstance.part \notin m_partlist \/ ~InImportedLibrary(einstance.part)

\* Every item the connection-point map holds.
ConnItems == UNION { m_connPoints[pos] : pos \in DOMAIN m_connPoints }

\* C15: for an instance whose part is not in the part list, or whose symbol
\* cannot be loaded from the imported library, loadInstance has reported one
\* error-severity diagnostic, appended no component and recorded nothing in
\* the connection-point map; every other instance handed to loadInstance whose
\* symbol loads has its component, and loadSchematic ends on the last sheet.
C15_FailedInstanceSkipped ==
    /\ \A node \in DOMAIN instances :
          Unloadable(instances[node]) =>
              /\ Cardinality({ r \in DOMAIN reports :
                                 /\ reports[r].node = node
                                 /\ reports[r].severity = "RPT_SEVERITY_ERROR" }) = 1
              /\ \A i \in DOMAIN components : components[i].node # node
              /\ \A item \in ConnItems : item.kind = "pin" => item.node # node
    /\ \A node \in DOMAIN instances :
          (InImportedLibrary(instances[node].part) /\ InLibTable(instances[node].part)) =>
              \E i \in DOMAIN components : components[i].node = node
    /\ pc = "sheetsdone" => sheetIndex = sheet_count

\* The first instance node could not be loaded; the instance after it, on the
\* second sheet, has its component, a wire was loaded and every sheet is done.
C15_Witness ==
    /\ pc = "sheetsdone"
    /\ sheet_count = 2
    /\ Len(instances) = 2
    /\ Unloadable(instances[1])
    /\ \E i \in DOMAIN components : components[i].node = 2 /\ components[i].sheet = 2
    /\ loadedWires # {}

(***************************************************************************)
(* loadLibrary (lines 2732-2827) and the pins of loadSymbol (lines         *)
(* 2830-2911, 2976).  The names that are concatenated or split are         *)
(* sequences of characters.                                                *)
(***************************************************************************)
MaxGates == 2       \* gates of a device set

\* The symbols of the library node: name -> the pin nodes of the symbol, in
\* document order.
Symbols ==
    [ SUP |-> << [name |-> "GND", direction |-> "sup"] >>,
      PWR |-> << [name |-> "VCC", direction |-> "pwr"] >>,
      IO2 |-> << [name |-> "A", direction |-> "io"],
                 [name |-> "V", direction |-> "SUP"] >> ]

\* The contents of the text nodes of the symbols.
SymbolTexts ==
    [ SUP |-> << ">NAME", ">VALUE" >>,
      PWR |-> << ">Name" >>,
      IO2 |-> << "IO" >> ]

\* A symbol node of the library: its pin and its text children.
SymbolNode(name) == [pins |-> Symbols[name], texts |-> SymbolTexts[name]]

\* The prefix attribute of a device set: none, or U.
Prefixes == { "", "U" }

\* The symbol names the gates refer to: NONE is not a symbol of the library.
SymbolRefs == DOMAIN Symbols \cup { "NONE" }

DeviceSetNames == { << "X" >> }
DeviceNames    == { << >>, << "N" >> }
GateNames      == { << "A" >>, << "N", "A" >>, << "B" >> }

\* The connect elements of a device: none, or pads for the pin GND of the gate
\* A (twice) and for the pin A of the gate NA.
ConnectChoices ==
    { << >>,
      << [gate |-> << "A" >>, pin |-> "GND", pad |-> << "1", " ", "2" >>],
         [gate |-> << "A" >>, pin |-> "GND", pad |-> << "9" >>],
         [gate |-> << "N", "A" >>, pin |-> "A", pad |-> << "3", " " >>] >> }

\* The sequences of SeqsOf without a repeated element.
DistinctSeqs(S, lo, hi) ==
    { q \in SeqsOf(S, lo, hi) : \A i, j \in DOMAIN q : q[i] = q[j] => i = j }

\* The gates of a device set: distinct names, any symbols.
GateLists ==
    UNION { { [k \in DOMAIN names |-> [name |-> names[k], symbol |-> syms[k]]] :
                syms \in [DOMAIN names -> SymbolRefs] } :
            names \in DistinctSeqs(GateNames, 1, MaxGates) }

\* The devices of a device set: distinct names, any connects.
DeviceLists ==
    UNION { { [k \in DOMAIN names |-> [name |-> names[k], connects |-> conns[k]]] :
                conns \in [DOMAIN names -> ConnectChoices] } :
            names \in DistinctSeqs(DeviceNames, 1, Cardinality(DeviceNames)) }

\* A device set of one supply gate and one device without connects.
SupplySet ==
    [name |-> << "Y" >>, prefix |-> "",
     gates |-> << [name |-> << "G" >>, symbol |-> "SUP"] >>,
     devices |-> << [name |-> << >>, connects |-> << >>] >>]

\* The library nodes tried: one device set, followed or not by SupplySet.
Libraries ==
    UNION { { << deviceset >>, << deviceset, SupplySet >> } :
            deviceset \in { [name |-> n, prefix |-> p, gates |-> g, devices |-> d] :
                              n \in DeviceSetNames, p \in Prefixes, g \in GateLists,
                              d \in DeviceLists } }

\* wxString::Lower on the directions tried
Lower(str) == IF str = "SUP" THEN "sup" ELSE str

\* wxString::Upper on the texts tried
Upper(str) == IF str = ">Name" THEN ">NAME" ELSE str

\* lines 1436-1446
pinDirectionsMap ==
    [ sup |-> "PT_POWER_IN", pas |-> "PT_PASSIVE", out |-> "PT_OUTPUT", in |-> "PT_INPUT",
      nc |-> "PT_NC", io |-> "PT_BIDI", oc |-> "PT_OPENCOLLECTOR", hiz |-> "PT_TRISTATE",
      pwr |-> "PT_POWER_IN" ]

\* wxSplit( str, sep ): a token ends at every separator; the last token is
\* added when it is not empty or follows a separator.
wxSplit(str, sep) ==
    LET RECURSIVE Scan(_, _, _)
        Scan(i, curr, ret) ==
            IF i > Len(str)
            THEN IF curr # << >> \/ (Len(str) > 0 /\ str[Len(str)] = sep)
                 THEN Append(ret, curr) ELSE ret
            ELSE IF str[i] = sep THEN Scan(i + 1, << >>, Append(ret, curr))
                 ELSE Scan(i + 1, Append(curr, str[i]), ret)
    IN  Scan(1, << >>, << >>)

\* wxString::Format( "%i", n ) for n >= 0
FormatInt(n) ==
    LET RECURSIVE Digits(_)
        Digits(m) == IF m < 10 THEN << ToString(m) >>
                     ELSE Digits(m \div 10) \o << ToString(m % 10) >>
    IN  Digits(n)

\* wxString::Replace( "*", "" )
RemoveStars(str) == SelectSeq(str, LAMBDA c : c # "*")

\* LIB_ID::FixIllegalChars
FixIllegalChars(str) ==
    [i \in DOMAIN str |-> IF str[i] \in { " ", "/", ":" } THEN "_" ELSE str[i]]

fixSymbolName(aName) == FixIllegalChars(aName)

\* lines 2767-2770
SymbolName(edeviceset, edevice) ==
    fixSymbolName(RemoveStars(edeviceset.name \o edevice.name))

\* line 2800: the key of the gate in GateUnit
GateKey(edeviceset, edevice, egate) == edeviceset.name \o edevice.name \o egate.name

\* lines 2857-2873: the type of the pin
PinType(ePin) ==
    IF Lower(ePin.direction) \in DOMAIN pinDirectionsMap
    THEN pinDirectionsMap[Lower(ePin.direction)]
    ELSE "PT_BIDI"

\* The pins added for one pin node when the loop of line 2892 adds the pin
\* once, with the first pad as its number.
AddedPins_FirstPadOnly(ePin, pincount, aDevice, aGateNumber, aGateName) ==
    LET pin == [name |-> ePin.name, number |-> << >>, unit |-> aGateNumber,
                type |-> PinType(ePin)]
    IN  IF Len(aDevice.connects) # 0
        THEN LET matching == { c \in DOMAIN aDevice.connects :
                                 /\ aDevice.connects[c].gate = aGateName
                                 /\ pin.name = aDevice.connects[c].pin }
             IN  IF matching = {} THEN << >>
                 ELSE LET first == CHOOSE c \in matching : \A d \in matching : c <= d
                          pads  == wxSplit(aDevice.connects[first].pad, " ")
                      IN  IF pads = << >> THEN << >>
                          ELSE << [pin EXCEPT !.name = escapeName(pin.name),
                                              !.number = pads[1]] >>
        ELSE << [pin EXCEPT !.number = FormatInt(pincount)] >>

\* lines 2876-2910: the pins added to the part for one pin node
AddedPins(ePin, pincount, aDevice, aGateNumber, aGateName) ==
    LET pin == [name |-> ePin.name, number |-> << >>, unit |-> aGateNumber,
                type |-> PinType(ePin)]
    IN  IF Len(aDevice.connects) # 0
        THEN LET matching == { c \in DOMAIN aDevice.connects :
                                 /\ aDevice.connects[c].gate = aGateName
                                 /\ pin.name = aDevice.connects[c].pin }
             IN  IF matching = {} THEN << >>
                 ELSE LET first == CHOOSE c \in matching : \A d \in matching : c <= d
                          pads  == wxSplit(aDevice.connects[first].pad, " ")
                      IN  [i \in DOMAIN pads |->
                             [pin EXCEPT !.name = escapeName(pin.name), !.number = pads[i]]]
        ELSE << [pin EXCEPT !.number = FormatInt(pincount)] >>

\* loadFieldAttributes (lines 3482-3491), as far as the visibility goes.
loadFieldAttributes(visible) == TRUE

\* The text nodes of a symbol when the fields are left as they are at the
\* end of loadSymbol.
loadTexts_NeverHides(texts, aPart) ==
    LET RECURSIVE Texts(_, _)
        Texts(i, part) ==
            IF i > Len(texts) THEN part
            ELSE IF Upper(texts[i]) = ">NAME"
            THEN Texts(i + 1, [part EXCEPT !.refVisible = loadFieldAttributes(@)])
            ELSE IF Upper(texts[i]) = ">VALUE"
            THEN Texts(i + 1, [part EXCEPT !.valVisible = loadFieldAttributes(@)])
            ELSE Texts(i + 1, part)
    IN  Texts(1, aPart)

\* lines 2836-2837, 2920-2937, 2970-2974: the text nodes of a symbol; a >NAME
\* or >VALUE text shows the reference or value field of the part, and a
\* field whose text was not found is hidden.
loadTexts(texts, aPart) ==
    LET RECURSIVE Texts(_, _, _, _)
        Texts(i, part, foundName, foundValue) ==
            IF i > Len(texts)
            THEN [part EXCEPT !.refVisible = IF foundName = FALSE THEN FALSE ELSE @,
                              !.valVisible = IF foundValue = FALSE THEN FALSE ELSE @]
            ELSE IF Upper(texts[i]) = ">NAME"
            THEN Texts(i + 1, [part EXCEPT !.refVisible = loadFieldAttributes(@)],
                       TRUE, foundValue)
            ELSE IF Upper(texts[i]) = ">VALUE"
            THEN Texts(i + 1, [part EXCEPT !.valVisible = loadFieldAttributes(@)],
                       foundName, TRUE)
            ELSE Texts(i + 1, part, foundName, foundValue)
    IN  Texts(1, aPart, FALSE, FALSE)

\* loadSymbol with the return statement `return ispower`
loadSymbol_AnyPinCount(aSymbolNode, aPart, aDevice, aGateNumber, aGateName) ==
    LET RECURSIVE Pins(_, _, _)
        Pins(i, part, power) ==
            IF i > Len(aSymbolNode.pins)
            THEN [part |-> loadTexts(aSymbolNode.texts, part), ispower |-> power]
            ELSE Pins(i + 1,
                      [part EXCEPT !.pins = @ \o AddedPins(aSymbolNode.pins[i], i, aDevice,
                                                          aGateNumber, aGateName)],
                      power \/ Lower(aSymbolNode.pins[i].direction) = "sup")
    IN  Pins(1, aPart, FALSE)

\* lines 2830-2976: the part with the pins of the symbol added and its
\* fields shown or hidden, and the value returned.
loadSymbol(aSymbolNode, aPart, aDevice, aGateNumber, aGateName) ==
    LET RECURSIVE Pins(_, _, _)
        Pins(i, part, power) ==
            IF i > Len(aSymbolNode.pins)
            THEN [part |-> loadTexts(aSymbolNode.texts, part),
                  ispower |-> IF Len(aSymbolNode.pins) = 1 THEN power ELSE FALSE]
            ELSE Pins(i + 1,
                      [part EXCEPT !.pins = @ \o AddedPins(aSymbolNode.pins[i], i, aDevice,
                                                          aGateNumber, aGateName)],
                      power \/ Lower(aSymbolNode.pins[i].direction) = "sup")
    IN  Pins(1, aPart, FALSE)

LibraryInit ==
    /\ pc = "symbols"
    /\ library \in Libraries
    /\ SymbolNodes = EmptyMap
    /\ GateUnitMap = EmptyMap
    /\ KiCadSymbols = EmptyMap
    /\ devicesetNode = 0
    /\ deviceNode = 0
    /\ gateNode = 0
    /\ kpart = << >>
    /\ ispower = FALSE
    /\ m_segments = << >>
    /\ m_wireIntersections = << >>
    /\ screen = << >>
    /\ SheetIdle
    /\ SegOnlyIdle
    /\ AdjustIdle
    /\ BusIdle
    /\ CountIdle
    /\ ImplicitIdle
    /\ FnIdle

libraryOtherVars == << sheetOnlyVars, m_segments, m_wireIntersections, segOnlyVars, screen,
                      adjustVars, busVars, countVars, implicitVars, fnVars >>

\* lines 2738-2748: every symbol node is entered in SymbolNodes under its
\* name; the first device set node.
LoadSymbolNodes ==
    /\ pc = "symbols"
    /\ SymbolNodes' = [name \in DOMAIN Symbols |-> name]
    /\ devicesetNode' = 1
    /\ deviceNode' = 1
    /\ pc' = "devices"
    /\ UNCHANGED << library, GateUnitMap, KiCadSymbols, gateNode, kpart, ispower >>

\* lines 2761-2794: the next device of the device set; its part is created
\* with the unit count of line 2781.
BeginDevice ==
    /\ pc = "devices"
    /\ devicesetNode \in DOMAIN library
    /\ deviceNode \in DOMAIN library[devicesetNode].devices
    /\ LET edeviceset  == library[devicesetNode]
           edevice     == edeviceset.devices[deviceNode]
           gates_count == Len(edeviceset.gates)
           prefix      == edeviceset.prefix
       IN  kpart' = [name |-> SymbolName(edeviceset, edevice), unitCount |-> gates_count,
                     power |-> FALSE, pins |-> << >>,
                     refVisible |-> IF prefix = "" THEN FALSE ELSE TRUE,
                     valVisible |-> TRUE]
    /\ gateNode' = 1
    /\ ispower' = FALSE
    /\ pc' = "gates"
    /\ UNCHANGED << library, SymbolNodes, GateUnitMap, KiCadSymbols, devicesetNode,
                    deviceNode >>

\* lines 2796-2807: one gate.  SymbolNodes[egate.symbol] enters a null pointer
\* for a name the map does not hold; loadSymbol dereferences it at line 2833,
\* which is undefined: the process ends there, or the call reads a node
\* without children.
LoadGate ==
    /\ pc = "gates"
    /\ gateNode \in DOMAIN library[devicesetNode].gates
    /\ LET edeviceset == library[devicesetNode]
           edevice    == edeviceset.devices[deviceNode]
           egate      == edeviceset.gates[gateNode]
           gateindex  == gateNode
           nodes1     == MapEmplace(SymbolNodes, egate.symbol, "nullptr")
       IN  /\ GateUnitMap' = MapAssign(GateUnitMap, GateKey(edeviceset, edevice, egate),
                                       gateindex)
           /\ SymbolNodes' = nodes1
           /\ IF nodes1[egate.symbol] = "nullptr"
              THEN \E outcome \in { "ends", "reads" } :
                      IF outcome = "ends"
                      THEN pc' = "crashed" /\ UNCHANGED << kpart, ispower, gateNode >>
                      ELSE /\ pc' = pc
                           /\ kpart' = loadSymbol([pins |-> << >>, texts |-> << >>],
                                                  kpart, edevice, gateindex,
                                                  egate.name).part
                           /\ ispower' = FALSE
                           /\ gateNode' = gateNode + 1
              ELSE LET loaded == loadSymbol(SymbolNode(nodes1[egate.symbol]), kpart, edevice,
                                            gateindex, egate.name)
                   IN  /\ pc' = pc
                       /\ kpart' = loaded.part
                       /\ ispower' = loaded.ispower
                       /\ gateNode' = gateNode + 1
    /\ UNCHANGED << library, KiCadSymbols, devicesetNode, deviceNode >>

\* lines 2809-2820: no further gate; the part is marked, saved and entered in
\* KiCadSymbols; the next device node.
EndDevice ==
    /\ pc = "gates"
    /\ gateNode \notin DOMAIN library[devicesetNode].gates
    /\ LET gates_count == Len(library[devicesetNode].gates)
           part        == [kpart EXCEPT !.power = (gates_count = 1 /\ ispower)]
       IN  KiCadSymbols' = MapEmplace(KiCadSymbols, fixSymbolName(part.name), part)
    /\ kpart' = << >>
    /\ deviceNode' = deviceNode + 1
    /\ pc' = "devices"
    /\ UNCHANGED << library, SymbolNodes, GateUnitMap, devicesetNode, gateNode, ispower >>

\* line 2823: no further device; the next device set node.
NextDeviceSet ==
    /\ pc = "devices"
    /\ devicesetNode \in DOMAIN library
    /\ deviceNode \notin DOMAIN library[devicesetNode].devices
    /\ devicesetNode' = devicesetNode + 1
    /\ deviceNode' = 1
    /\ UNCHANGED << pc, library, SymbolNodes, GateUnitMap, KiCadSymbols, gateNode, kpart,
                    ispower >>

\* line 2826: no further device set; loadLibrary returns.
EndLibrary ==
    /\ pc = "devices"
    /\ devicesetNode \notin DOMAIN library
    /\ pc' = "libdone"
    /\ UNCHANGED << library, SymbolNodes, GateUnitMap, KiCadSymbols, devicesetNode,
                    deviceNode, gateNode, kpart, ispower >>

LibraryStep ==
    \/ LoadSymbolNodes
    \/ BeginDevice
    \/ LoadGate
    \/ EndDevice
    \/ NextDeviceSet
    \/ EndLibrary

LibraryNext == LibraryStep /\ UNCHANGED libraryOtherVars

SpecLibrary == LibraryInit /\ [][LibraryNext]_vars

(***************************************************************************)
(* Claims about loadLibrary and loadSymbol (specification SpecLibrary).    *)
(***************************************************************************)
\* The devices of the library: pairs (device set index, device index).
Devices ==
    { << s, d >> \in (DOMAIN library) \X (1 .. Cardinality(DeviceNames)) :
        d \in DOMAIN library[s].devices }

GatesOf(dev)   == library[dev[1]].gates
DeviceOf(dev)  == library[dev[1]].devices[dev[2]]
NameOf(dev)    == SymbolName(library[dev[1]], DeviceOf(dev))
Translated(dev) == NameOf(dev) \in DOMAIN KiCadSymbols

\* loadLibrary has stopped: it returned, or the process ended in it.
LibraryStopped == pc \in { "libdone", "crashed" }

\* C16: when a gate of a device references a symbol name absent from the
\* library's symbols, the failure is contained: once loadLibrary has stopped,
\* every device whose gates all name symbols of the library has been
\* translated.
C16_AbsentSymbolContained ==
    LibraryStopped =>
        \A dev \in Devices :
            (\A k \in DOMAIN GatesOf(dev) : GatesOf(dev)[k].symbol \in DOMAIN Symbols) =>
                Translated(dev)

\* C18: after loadLibrary, for every device the unit count of its symbol
\* equals the number of gates of its device set, and the gate-to-unit map
\* assigns the k-th gate in document order to unit k.
C18_GateUnits ==
    pc = "libdone" =>
        \A dev \in Devices :
            /\ KiCadSymbols[NameOf(dev)].unitCount = Len(GatesOf(dev))
            /\ \A k \in DOMAIN GatesOf(dev) :
                  GateUnitMap[GateKey(library[dev[1]], DeviceOf(dev), GatesOf(dev)[k])] = k

\* The pin nodes of the symbol a gate names, none for a name the library
\* does not hold.
PinsOfGate(egate) ==
    IF egate.symbol \in DOMAIN Symbols THEN Symbols[egate.symbol] ELSE << >>

\* C19 as stated: a translated symbol is a power symbol iff its device set
\* has exactly one gate and that gate's symbol has exactly one pin whose
\* direction maps to the power-input electrical type.
C19_PowerIffOnePowerInputPin ==
    \A dev \in Devices :
        Translated(dev) =>
            (KiCadSymbols[NameOf(dev)].power <=>
                /\ Len(GatesOf(dev)) = 1
                /\ Cardinality({ i \in DOMAIN PinsOfGate(GatesOf(dev)[1]) :
                                   PinType(PinsOfGate(GatesOf(dev)[1])[i]) = "PT_POWER_IN" }) = 1)

\* C19 as amended: a translated symbol is a power symbol iff its device set
\* has exactly one gate and that gate's symbol has exactly one pin, whose
\* direction, in lower case, is "sup".
C19_PowerIffSingleSupPin ==
    \A dev \in Devices :
        Translated(dev) =>
            (KiCadSymbols[NameOf(dev)].power <=>
                /\ Len(GatesOf(dev)) = 1
                /\ Len(PinsOfGate(GatesOf(dev)[1])) = 1
                /\ Lower(PinsOfGate(GatesOf(dev)[1])[1].direction) = "sup")

\* The library is done: the single supply gate of one device set made a power
\* symbol, the single gate of another, whose only pin has the direction pwr,
\* did not.
C19_Witness ==
    /\ pc = "libdone"
    /\ \E dev, other \in Devices :
          /\ Len(GatesOf(dev)) = 1
          /\ GatesOf(dev)[1].symbol = "SUP"
          /\ KiCadSymbols[NameOf(dev)].power
          /\ Len(GatesOf(other)) = 1
          /\ GatesOf(other)[1].symbol = "PWR"
          /\ ~KiCadSymbols[NameOf(other)].power

\* The pads a connect entry lists: the fields of its pad attribute between
\* the blanks, none for the empty string.
PadCount(pad) ==
    IF pad = << >> THEN 0 ELSE 1 + Cardinality({ i \in DOMAIN pad : pad[i] = " " })

PadName(pad, j) ==
    LET seps == { 0, Len(pad) + 1 } \cup { i \in DOMAIN pad : pad[i] = " " }
        nth(n) == CHOOSE x \in seps : Cardinality({ y \in seps : y < x }) = n - 1
    IN  SubSeq(pad, nth(j) + 1, nth(j + 1) - 1)

\* The pins of the unit in the translated symbol that carry the name.
UnitPins(dev, unit, name) ==
    LET part == KiCadSymbols[NameOf(dev)]
    IN  SelectSeq(part.pins, LAMBDA q : q.unit = unit /\ q.name = name)

\* The connect entries of the device for the gate and the pin.
Matching(dev, egate, ePin) ==
    { c \in DOMAIN DeviceOf(dev).connects :
        /\ DeviceOf(dev).connects[c].gate = egate.name
        /\ DeviceOf(dev).connects[c].pin = ePin.name }

\* C20: in a translated symbol, when the device has pad connections, a symbol
\* pin matched by a connect entry (same gate name and pin name) that lists k
\* pads has exactly k pins in the unit, alike but for the number, which is one
\* of the k pad names each; when the device has no pad connections, every pin
\* is in the unit exactly once, numbered by its 1-based order in the symbol.
C20_PinsPerPad ==
    \A dev \in Devices :
        Translated(dev) =>
            \A k \in DOMAIN GatesOf(dev) :
                \A i \in DOMAIN PinsOfGate(GatesOf(dev)[k]) :
                    LET ePin == PinsOfGate(GatesOf(dev)[k])[i]
                        pins == UnitPins(dev, k, ePin.name)
                        hits == Matching(dev, GatesOf(dev)[k], ePin)
                    IN  IF DeviceOf(dev).connects # << >>
                        THEN hits # {} =>
                                LET pad == DeviceOf(dev).connects[
                                               CHOOSE c \in hits : \A d \in hits : c <= d].pad
                                IN  /\ Len(pins) = PadCount(pad)
                                    /\ \A j \in DOMAIN pins :
                                          /\ pins[j].number = PadName(pad, j)
                                          /\ pins[j].type = PinType(ePin)
                        ELSE /\ Len(pins) = 1
                             /\ pins[1].number = << ToString(i) >>
                             /\ pins[1].type = PinType(ePin)

\* The library is done: a device with pad connections has two pins for the
\* pin GND of its gate A, numbered 1 and 2, and a device without has the two
\* pins of the symbol IO2 numbered 1 and 2.
C20_Witness ==
    /\ pc = "libdone"
    /\ \E dev, other \in Devices :
          /\ DeviceOf(dev).connects # << >>
          /\ \E k \in DOMAIN GatesOf(dev) :
                /\ GatesOf(dev)[k] = [name |-> << "A" >>, symbol |-> "SUP"]
                /\ Len(UnitPins(dev, k, "GND")) = 2
                /\ UnitPins(dev, k, "GND")[1].number = << "1" >>
                /\ UnitPins(dev, k, "GND")[2].number = << "2" >>
          /\ DeviceOf(other).connects = << >>
          /\ \E k \in DOMAIN GatesOf(other) :
                /\ GatesOf(other)[k].symbol = "IO2"
                /\ UnitPins(other, k, "A")[1].number = << "1" >>
                /\ UnitPins(other, k, "V")[1].number = << "2" >>

(***************************************************************************)
(* loadInstance lines 2538-2543: the unit of an instance is looked up in   *)
(* the gate-to-unit map of the library of its part.                        *)
(***************************************************************************)
\* m_eagleLibs[libraryname].GateUnit[gatename]: operator[] of the map gives 0
\* for a key it does not hold.
UnitOfInstance(deviceset, device, gate) ==
    LET gatename == deviceset \o device \o gate
    IN  IF gatename \in DOMAIN GateUnitMap THEN GateUnitMap[gatename] ELSE 0

\* The gates of the devices of the library: device and index of the gate.
DeviceGates == { << dev, k >> \in Devices \X (1 .. MaxGates) : k \in DOMAIN GatesOf(dev) }

\* C26: after loadLibrary, an instance of a gate of a device is given a unit
\* between 1 and the unit count of the symbol of the device, the index of
\* the gate in its device set in document order; and two distinct (device
\* set, device, gate) triples have distinct keys in the gate-to-unit map.
C26_UnitIsGateIndex ==
    pc = "libdone" =>
        /\ \A dg \in DeviceGates :
              LET unit == UnitOfInstance(library[dg[1][1]].name, DeviceOf(dg[1]).name,
                                         GatesOf(dg[1])[dg[2]].name)
              IN  /\ unit \in 1 .. KiCadSymbols[NameOf(dg[1])].unitCount
                  /\ unit = dg[2]
        /\ \A dg1, dg2 \in DeviceGates :
              dg1 # dg2 =>
                  GateKey(library[dg1[1][1]], DeviceOf(dg1[1]), GatesOf(dg1[1])[dg1[2]])
                      # GateKey(library[dg2[1][1]], DeviceOf(dg2[1]), GatesOf(dg2[1])[dg2[2]])

(***************************************************************************)
(* Claims about the visibility of the reference and value fields of a      *)
(* translated symbol (specification SpecLibrary).                          *)
(***************************************************************************)
\* Every gate of the device names a symbol of the library.
GatesResolved(dev) ==
    \A k \in DOMAIN GatesOf(dev) : GatesOf(dev)[k].symbol \in DOMAIN Symbols

\* The gates of the device whose symbol holds the text, compared in upper
\* case.
GatesWithText(dev, text) ==
    { k \in DOMAIN GatesOf(dev) :
        \E i \in DOMAIN SymbolTexts[GatesOf(dev)[k].symbol] :
            Upper(SymbolTexts[GatesOf(dev)[k].symbol][i]) = text }

\* C21: after loadLibrary, for every device whose gates name symbols of the
\* library, the reference field of its symbol is hidden when no symbol of
\* its gates holds a >NAME text, and the value field is hidden when none
\* holds a >VALUE text.
C21_NoPlaceholderHidden ==
    pc = "libdone" =>
        \A dev \in Devices :
            GatesResolved(dev) =>
                /\ GatesWithText(dev, ">NAME") = { }
                      => ~KiCadSymbols[NameOf(dev)].refVisible
                /\ GatesWithText(dev, ">VALUE") = { }
                      => ~KiCadSymbols[NameOf(dev)].valVisible

\* A device of a device set with a prefix and of symbols without >NAME and
\* >VALUE text has been translated, and so has one whose symbol holds both
\* texts: the first has its fields hidden, the second shown.
C21_Witness ==
    /\ pc = "libdone"
    /\ \E dev \in Devices :
          /\ GatesResolved(dev)
          /\ library[dev[1]].prefix # ""
          /\ GatesWithText(dev, ">NAME") = { }
          /\ GatesWithText(dev, ">VALUE") = { }
          /\ ~KiCadSymbols[NameOf(dev)].refVisible
          /\ ~KiCadSymbols[NameOf(dev)].valVisible
    /\ \E dev \in Devices :
          /\ GatesResolved(dev)
          /\ GatesWithText(dev, ">NAME") # { }
          /\ GatesWithText(dev, ">VALUE") # { }
          /\ KiCadSymbols[NameOf(dev)].refVisible
          /\ KiCadSymbols[NameOf(dev)].valVisible

\* C27: after loadLibrary, for every device of several gates that name
\* symbols of the library, the reference field of its symbol is shown when
\* a symbol of its gates holds a >NAME text, and the value field is shown
\* when one holds a >VALUE text.
C27_ShownIfAnyGateHasText ==
    pc = "libdone" =>
        \A dev \in Devices :
            (GatesResolved(dev) /\ Len(GatesOf(dev)) > 1) =>
                /\ GatesWithText(dev, ">NAME") # { }
                      => KiCadSymbols[NameOf(dev)].refVisible
                /\ GatesWithText(dev, ">VALUE") # { }
                      => KiCadSymbols[NameOf(dev)].valVisible

(***************************************************************************)
(* eagleToKicadAlignment (lines 1615-1714): the alignment of an Eagle text *)
(* is turned by the relative rotation, mirrored, and set as the            *)
(* justification of the text.                                              *)
(***************************************************************************)
\* The variables of the engine but pc, and their idle values, for the
\* specifications of the functions called on one value.
engineVars == << sheetOnlyVars, m_segments, m_wireIntersections, segOnlyVars, screen,
                 adjustVars, busVars, countVars, implicitVars, libraryVars >>

EngineIdle ==
    /\ m_segments = << >>
    /\ m_wireIntersections = << >>
    /\ screen = << >>
    /\ SheetIdle
    /\ SegOnlyIdle
    /\ AdjustIdle
    /\ BusIdle
    /\ CountIdle
    /\ ImplicitIdle
    /\ LibraryIdle

\* The align values of ETEXT: the opposite of a value is its negative.
ETEXT ==
    [ CENTER |-> 0, CENTER_LEFT |-> 1, TOP_CENTER |-> 2, TOP_LEFT |-> 3, TOP_RIGHT |-> 4,
      CENTER_RIGHT |-> -1, BOTTOM_CENTER |-> -2, BOTTOM_LEFT |-> -4, BOTTOM_RIGHT |-> -3 ]

\* The alignments tried: the values of ETEXT and one to each side of them.
Alignments == -5 .. 5

Rotations == { 0, 90, 180, 270 }

\* lines 1620-1632: the relative rotation.
RotateAlign(a, rel) == IF rel = 180 \/ rel = 270 THEN -a ELSE a

\* lines 1620-1632: the angle of the text, 0 when it is not set.
RotateAngle(rel) == IF rel = 90 \/ rel = 270 THEN 900 ELSE 0

\* The mirror step with the top right alignment mirrored to the bottom left
\* one at 90 and 270 degrees.
MirrorAlign_Diagonal(a, abs) ==
    IF abs = 90 \/ abs = 270
    THEN IF a = ETEXT.BOTTOM_RIGHT THEN ETEXT.TOP_RIGHT
         ELSE IF a = ETEXT.BOTTOM_LEFT THEN ETEXT.TOP_LEFT
         ELSE IF a = ETEXT.TOP_LEFT THEN ETEXT.BOTTOM_LEFT
         ELSE IF a = ETEXT.TOP_RIGHT THEN ETEXT.BOTTOM_LEFT
         ELSE a
    ELSE IF abs = 0 \/ abs = 180
    THEN IF a = ETEXT.BOTTOM_RIGHT THEN ETEXT.BOTTOM_LEFT
         ELSE IF a = ETEXT.BOTTOM_LEFT THEN ETEXT.BOTTOM_RIGHT
         ELSE IF a = ETEXT.TOP_LEFT THEN ETEXT.TOP_RIGHT
         ELSE IF a = ETEXT.TOP_RIGHT THEN ETEXT.TOP_LEFT
         ELSE IF a = ETEXT.CENTER_LEFT THEN ETEXT.CENTER_RIGHT
         ELSE IF a = ETEXT.CENTER_RIGHT THEN ETEXT.CENTER_LEFT
         ELSE a
    ELSE a

\* lines 1636-1660: the mirror step.
MirrorAlign(a, abs) ==
    IF abs = 90 \/ abs = 270
    THEN IF a = ETEXT.BOTTOM_RIGHT THEN ETEXT.TOP_RIGHT
         ELSE IF a = ETEXT.BOTTOM_LEFT THEN ETEXT.TOP_LEFT
         ELSE IF a = ETEXT.TOP_LEFT THEN ETEXT.BOTTOM_LEFT
         ELSE IF a = ETEXT.TOP_RIGHT THEN ETEXT.BOTTOM_RIGHT
         ELSE a
    ELSE IF abs = 0 \/ abs = 180
    THEN IF a = ETEXT.BOTTOM_RIGHT THEN ETEXT.BOTTOM_LEFT
         ELSE IF a = ETEXT.BOTTOM_LEFT THEN ETEXT.BOTTOM_RIGHT
         ELSE IF a = ETEXT.TOP_LEFT THEN ETEXT.TOP_RIGHT
         ELSE IF a = ETEXT.TOP_RIGHT THEN ETEXT.TOP_LEFT
         ELSE IF a = ETEXT.CENTER_LEFT THEN ETEXT.CENTER_RIGHT
         ELSE IF a = ETEXT.CENTER_RIGHT THEN ETEXT.CENTER_LEFT
         ELSE a
    ELSE a

\* lines 1663-1713: the justification of the alignment.
Justify(a) ==
    IF a = ETEXT.CENTER THEN [h |-> "CENTER", v |-> "CENTER"]
    ELSE IF a = ETEXT.CENTER_LEFT THEN [h |-> "LEFT", v |-> "CENTER"]
    ELSE IF a = ETEXT.CENTER_RIGHT THEN [h |-> "RIGHT", v |-> "CENTER"]
    ELSE IF a = ETEXT.TOP_CENTER THEN [h |-> "CENTER", v |-> "TOP"]
    ELSE IF a = ETEXT.TOP_LEFT THEN [h |-> "LEFT", v |-> "TOP"]
    ELSE IF a = ETEXT.TOP_RIGHT THEN [h |-> "RIGHT", v |-> "TOP"]
    ELSE IF a = ETEXT.BOTTOM_CENTER THEN [h |-> "CENTER", v |-> "BOTTOM"]
    ELSE IF a = ETEXT.BOTTOM_LEFT THEN [h |-> "LEFT", v |-> "BOTTOM"]
    ELSE IF a = ETEXT.BOTTOM_RIGHT THEN [h |-> "RIGHT", v |-> "BOTTOM"]
    ELSE [h |-> "RIGHT", v |-> "BOTTOM"]

\* The call of eagleToKicadAlignment on a text.
AlignInit ==
    /\ pc = "rotate"
    /\ aEagleAlignment \in Alignments
    /\ aRelDegress \in Rotations
    /\ aMirror \in BOOLEAN
    /\ aAbsDegress \in Rotations
    /\ align = aEagleAlignment
    /\ aText = << >>
    /\ EngineIdle
    /\ TranslationIdle
    /\ UnescapeIdle
    /\ ReferenceIdle

\* lines 1620-1632
AlignRotate ==
    /\ pc = "rotate"
    /\ align' = RotateAlign(align, aRelDegress)
    /\ aText' = [angle |-> RotateAngle(aRelDegress)]
    /\ pc' = "mirror"
    /\ UNCHANGED << aEagleAlignment, aRelDegress, aMirror, aAbsDegress >>

\* lines 1634-1661
AlignMirror ==
    /\ pc = "mirror"
    /\ align' = IF aMirror = TRUE THEN MirrorAlign(align, aAbsDegress) ELSE align
    /\ pc' = "justify"
    /\ UNCHANGED << aEagleAlignment, aRelDegress, aMirror, aAbsDegress, aText >>

\* lines 1663-1713
AlignJustify ==
    /\ pc = "justify"
    /\ aText' = [angle |-> aText.angle, h |-> Justify(align).h, v |-> Justify(align).v]
    /\ pc' = "aligned"
    /\ UNCHANGED << aEagleAlignment, aRelDegress, aMirror, aAbsDegress, align >>

AlignStep ==
    \/ AlignRotate
    \/ AlignMirror
    \/ AlignJustify

AlignNext ==
    AlignStep /\ UNCHANGED << engineVars, translationVars, unescapeVars, referenceVars >>

SpecAlignment == AlignInit /\ [][AlignNext]_vars

\* C22: once eagleToKicadAlignment has mirrored an alignment, the mirror
\* step at the same rotation gives the alignment it had before the mirror
\* step, and so the horizontal and vertical justification of that
\* alignment.
C22_MirrorInvolution ==
    (pc \in { "justify", "aligned" } /\ aMirror) =>
        LET before == RotateAlign(aEagleAlignment, aRelDegress)
            twice  == MirrorAlign(align, aAbsDegress)
        IN  /\ twice = before
            /\ Justify(twice) = Justify(before)

\* A top left alignment turned by 270 degrees and mirrored at 90 degrees
\* has been set as a top right justification.
C22_Witness ==
    /\ pc = "aligned"
    /\ aMirror
    /\ aRelDegress = 270
    /\ aAbsDegress = 90
    /\ aEagleAlignment = ETEXT.TOP_LEFT
    /\ align # RotateAlign(aEagleAlignment, aRelDegress)
    /\ aText.h = "RIGHT"
    /\ aText.v = "TOP"

(***************************************************************************)
(* loadSheet lines 2195-2203 and 2212-2224: the items of the sheet are     *)
(* moved by the offset of the centre of the page from the centre of their  *)
(* bounding box, put on the grid of 100 mil.                               *)
(***************************************************************************)
\* The operator % of C++ on int: the remainder has the sign of the dividend.
Rem(a, b) == IF a >= 0 THEN a % b ELSE -((-a) % b)

\* The centres of the pages tried, in mils.
SheetCentres == { Pt(Mils2iu(5500), Mils2iu(4250)), Pt(Mils2iu(5850), Mils2iu(4135)) }

\* The coordinates of the centres of the bounding boxes tried.
ItemsCentreCoords == { Mils2iu(4000), Mils2iu(4190), Mils2iu(4250), Mils2iu(5310),
                       Mils2iu(5500), Mils2iu(5740), Mils2iu(6000) }

\* loadSheet at line 2195: the page is resized; an item is on the centre of
\* the bounding box of the items and one is 1000 mil to the right of it.
TranslationInit ==
    /\ pc = "resized"
    /\ sheetcentre \in SheetCentres
    /\ itemsCentre \in { Pt(x, y) : x, y \in ItemsCentreCoords }
    /\ translation = << >>
    /\ allItems = << itemsCentre, VAdd(itemsCentre, Pt(Mils2iu(1000), 0)) >>
    /\ EngineIdle
    /\ AlignIdle
    /\ UnescapeIdle
    /\ ReferenceIdle

\* lines 2200-2203
ComputeTranslation ==
    /\ pc = "resized"
    /\ LET offset == VSub(sheetcentre, itemsCentre)
       IN  translation' = Pt(offset.x - Rem(offset.x, Mils2iu(100)),
                             offset.y - Rem(offset.y, Mils2iu(100)))
    /\ pc' = "translate"
    /\ UNCHANGED << sheetcentre, itemsCentre, allItems >>

\* lines 2212-2224
TranslateItems ==
    /\ pc = "translate"
    /\ translation # << >>
    /\ allItems' = [i \in DOMAIN allItems |-> VAdd(allItems[i], translation)]
    /\ pc' = "translated"
    /\ UNCHANGED << sheetcentre, itemsCentre, translation >>

TranslationStep ==
    \/ ComputeTranslation
    \/ TranslateItems

TranslationNext ==
    TranslationStep /\ UNCHANGED << engineVars, alignVars, unescapeVars, referenceVars >>

SpecTranslation == TranslationInit /\ [][TranslationNext]_vars

\* The multiple of the grid nearest to the offset is no farther from it than
\* half the grid.
NearestOnGrid(t, offset, grid) ==
    /\ Rem(t, grid) = 0
    /\ 2 * Abs(offset - t) <= grid

\* C28: after loadSheet, every item has been moved, in each coordinate, by
\* the multiple of 100 mil nearest to the offset of the centre of the page
\* from the centre of the bounding box of the items.
C28_TranslationNearestGrid ==
    pc = "translated" =>
        LET offset == VSub(sheetcentre, itemsCentre)
        IN  /\ NearestOnGrid(translation.x, offset.x, Mils2iu(100))
            /\ NearestOnGrid(translation.y, offset.y, Mils2iu(100))
            /\ allItems[1] = VAdd(itemsCentre, translation)

(***************************************************************************)
(* UnescapeString (lines 603-665).  A string is the sequence of its        *)
(* characters; the index i counts from 0 as in the code, so aSource[i] of  *)
(* the code is aSource[i + 1] here.  A call in progress is a record        *)
(* [aSource, i, newbuf, prev]: prev is the value i had when the latest     *)
(* iteration of the outer loop began, -1 before the first.                 *)
(***************************************************************************)
MaxLen == 5   \* length of the strings given to UnescapeString

\* The characters of the strings tried.
Chars == { "{", "}", "$", "l", "t" }

\* lines 641-653: the tokens that stand for one character.
Tokens ==
    << "d", "b", "l", "q", "u", "o", "t", "e" >> :> "\"" @@
    << "q", "u", "o", "t", "e" >> :> "'" @@
    << "l", "t" >> :> "<" @@
    << "g", "t" >> :> ">" @@
    << "b", "a", "c", "k", "s", "l", "a", "s", "h" >> :> "\\" @@
    << "s", "l", "a", "s", "h" >> :> "/" @@
    << "b", "a", "r" >> :> "|" @@
    << "c", "o", "l", "o", "n" >> :> ":" @@
    << "s", "p", "a", "c", "e" >> :> " " @@
    << "d", "o", "l", "l", "a", "r" >> :> "$" @@
    << "t", "a", "b" >> :> "\t" @@
    << "r", "e", "t", "u", "r", "n" >> :> "\n" @@
    << "b", "r", "a", "c", "e" >> :> "{"

\* line 607: ++i, with i kept as it is.
NextIndex_Stays(i) == i

\* line 607: ++i
NextIndex(i) == i + 1

\* lines 612-618: the index of the first } from i on, sourceLen when there
\* is none.
CopyEnd(aSource, i) ==
    LET RECURSIVE Scan(_)
        Scan(j) == IF j < Len(aSource) /\ aSource[j + 1] # "}" THEN Scan(j + 1) ELSE j
    IN  Scan(i)

\* lines 624-639: the token behind the { at i and the index the scan ends
\* at: the matching }, or sourceLen when there is none.
ScanToken(aSource, i) ==
    LET RECURSIVE Scan(_, _, _)
        Scan(j, depth, token) ==
            IF j >= Len(aSource) THEN [i |-> j, token |-> token]
            ELSE LET d == IF aSource[j + 1] = "{" THEN depth + 1
                          ELSE IF aSource[j + 1] = "}" THEN depth - 1
                          ELSE depth
                 IN  IF d <= 0 THEN [i |-> j, token |-> token]
                     ELSE Scan(j + 1, d, Append(token, aSource[j + 1]))
    IN  Scan(i + 1, 1, << >>)

\* line 609-610: the test of the first branch.
IsMarkup(aSource, i) ==
    /\ aSource[i + 1] \in { "$", "^", "_" }
    /\ i + 1 < Len(aSource)
    /\ aSource[i + 2] = "{"

\* lines 655-658: the token is handed to a call of UnescapeString.
Recurses(aSource, i) ==
    /\ ~IsMarkup(aSource, i)
    /\ aSource[i + 1] = "{"
    /\ ScanToken(aSource, i).token \notin DOMAIN Tokens
    /\ ScanToken(aSource, i).token # << >>

Call(aSource) == [aSource |-> aSource, i |-> 0, newbuf |-> << >>, prev |-> -1]

\* The innermost call.
Top == calls[Len(calls)]

\* UnescapeString is called on a string.
UnescapeInit ==
    /\ pc = "unescape"
    /\ \E aSource \in SeqsOf(Chars, 0, MaxLen) : calls = << Call(aSource) >>
    /\ returned = << >>
    /\ EngineIdle
    /\ AlignIdle
    /\ TranslationIdle
    /\ ReferenceIdle

\* lines 607-661: an iteration of the outer loop that calls nothing.
UnescapeIterate ==
    /\ pc = "unescape"
    /\ Top.i < Len(Top.aSource)
    /\ ~Recurses(Top.aSource, Top.i)
    /\ LET aSource == Top.aSource
           i       == Top.i
           done    ==
               IF IsMarkup(aSource, i)
               THEN LET j == CopyEnd(aSource, i)
                    IN  [i |-> j,
                         newbuf |-> Top.newbuf \o
                                    SubSeq(aSource, i + 1, Min(j + 1, Len(aSource)))]
               ELSE IF aSource[i + 1] = "{"
               THEN LET scan == ScanToken(aSource, i)
                    IN  [i |-> scan.i,
                         newbuf |-> Append(Top.newbuf,
                                           IF scan.token = << >> THEN "{"
                                           ELSE Tokens[scan.token])]
               ELSE [i |-> i, newbuf |-> Append(Top.newbuf, aSource[i + 1])]
       IN  calls' = [calls EXCEPT ![Len(calls)] =
                        [@ EXCEPT !.i = NextIndex(done.i), !.newbuf = done.newbuf,
                                  !.prev = i]]
    /\ UNCHANGED << pc, returned >>

\* lines 622-639, 657: an iteration of the outer loop that reaches the call
\* of UnescapeString on the token.
UnescapeCall ==
    /\ pc = "unescape"
    /\ Top.i < Len(Top.aSource)
    /\ Recurses(Top.aSource, Top.i)
    /\ LET scan == ScanToken(Top.aSource, Top.i)
       IN  calls' = Append([calls EXCEPT ![Len(calls)] =
                               [@ EXCEPT !.i = scan.i, !.prev = Top.i]],
                           Call(scan.token))
    /\ UNCHANGED << pc, returned >>

\* lines 664 and 657: the loop of the innermost call is done and newbuf is
\* returned; the calling iteration appends it in braces and ends.
UnescapeReturn ==
    /\ pc = "unescape"
    /\ Top.i >= Len(Top.aSource)
    /\ IF Len(calls) = 1
       THEN /\ returned' = Top.newbuf
            /\ calls' = << >>
            /\ pc' = "unescaped"
       ELSE /\ calls' = [k \in 1 .. Len(calls) - 1 |->
                            IF k = Len(calls) - 1
                            THEN [calls[k] EXCEPT
                                     !.newbuf = @ \o << "{" >> \o Top.newbuf \o << "}" >>,
                                     !.i = NextIndex(@)]
                            ELSE calls[k]]
            /\ UNCHANGED << pc, returned >>

UnescapeStep ==
    \/ UnescapeIterate
    \/ UnescapeCall
    \/ UnescapeReturn

UnescapeNext ==
    UnescapeStep /\ UNCHANGED << engineVars, alignVars, translationVars, referenceVars >>

SpecUnescape == UnescapeInit /\ [][UnescapeNext]_vars

\* The steps of UnescapeString are taken as long as one is possible.
SpecUnescapeFair == SpecUnescape /\ WF_vars(UnescapeNext)

\* UnescapeString returns.
UnescapeReturns == <>(pc = "unescaped")

\* C30: in every call of UnescapeString in progress the index is beyond the
\* index the latest iteration of the outer loop began at and at most one
\* beyond the length of the source, and the source of a call made by
\* UnescapeString is shorter than the source of the calling call; so there
\* are at most as many iterations in a call as its source is long and at most
\* as many calls in progress as the given string is long, plus one.
C30_IndexAdvancesTokenShorter ==
    pc = "unescape" =>
        /\ calls # << >>
        /\ \A k \in DOMAIN calls :
              /\ calls[k].prev < calls[k].i
              /\ calls[k].i <= Len(calls[k].aSource) + 1
              /\ k > 1 => Len(calls[k].aSource) < Len(calls[k - 1].aSource)

\* A call on a token of nested braces is in progress in a call on a token
\* of a string without closing brace, and has read its source to the end.
C30_Witness ==
    /\ pc = "unescape"
    /\ Len(calls) = 3
    /\ calls[1].aSource = << "{", "{", "l", "}", "{" >>
    /\ Top.i = Len(Top.aSource)

(***************************************************************************)
(* loadInstance lines 2589-2604: the reference of the component, from the  *)
(* name of the part of the instance and the package of its device.         *)
(***************************************************************************)
MaxRefLen == 3   \* length of the names of the parts

\* The characters of the names of the parts tried.
RefChars == { "1", "2", "R" }

DecimalDigits == { "0", "1", "2", "3", "4", "5", "6", "7", "8", "9" }

\* std::string::find_first_not_of: the index of the first character of str
\* that is none of chars, counted from 0, and npos (-1 here) when there is
\* none.
find_first_not_of(str, chars) ==
    LET others == { k \in DOMAIN str : str[k] \notin chars }
    IN  IF others = { } THEN -1
        ELSE (CHOOSE k \in others : \A j \in others : k <= j) - 1

\* lines 2591-2597
Reference(part, pkg) ==
    LET ref == IF pkg = << >> THEN << "#" >> \o part ELSE part
    IN  IF find_first_not_of(ref, DecimalDigits) = -1 THEN << "U", "N", "K" >> \o ref ELSE ref

\* loadInstance at line 2589: the part of the instance was found; its device
\* has a package or none.
ReferenceInit ==
    /\ pc = "reference"
    /\ instancePart \in SeqsOf(RefChars, 0, MaxRefLen)
    /\ package \in { << >>, << "P" >> }
    /\ reference = << >>
    /\ EngineIdle
    /\ AlignIdle
    /\ TranslationIdle
    /\ UnescapeIdle

\* lines 2589-2604: the reference is set in the reference field of the
\* component.
SetReference ==
    /\ pc = "reference"
    /\ reference' = Reference(instancePart, package)
    /\ pc' = "referenced"
    /\ UNCHANGED << instancePart, package >>

ReferenceNext ==
    SetReference /\ UNCHANGED << engineVars, alignVars, translationVars, unescapeVars >>

SpecReference == ReferenceInit /\ [][ReferenceNext]_vars

\* The string begins with a digit.
BeginsWithDigit(str) == str # << >> /\ str[1] \in DecimalDigits

\* C29: the reference loadInstance sets for a component does not begin with
\* a digit: when the reference made of the name of the part does, it is
\* set with UNK before it.
C29_ReferenceNoLeadingDigit ==
    pc = "referenced" =>
        /\ ~BeginsWithDigit(reference)
        /\ (package # << >> /\ BeginsWithDigit(instancePart)) =>
               reference = << "U", "N", "K" >> \o instancePart

====
